---- MODULE Spec2Model ----
(***************************************************************************)
(* Plagiarism / similarity detection of CampusConnect+.                    *)
(*                                                                         *)
(*   src/plagiarism_checker.py   PlagiarismChecker (sequence ratio, phrase *)
(*                               overlap, boilerplate ratio, risk report)  *)
(*   src/plagiarism_detector.py  clean_text, check_plagiarism (TF-IDF)     *)
(*   src/blueprints/faculty.py   the peer-comparison views                 *)
(*   src/blueprints/student.py   peer comparison on submission             *)
(*                                                                         *)
(* A text is a sequence of characters, each character a one-letter string. *)
(* Scores are exact rationals [n, d] in lowest terms (d > 0).              *)
(***************************************************************************)
EXTENDS Integers, Sequences, FiniteSets, TLC

VARIABLES
    text,                  \* first argument of the call (the candidate text)
    text2,                 \* second argument of a two-text scorer
    phrase_length,         \* window size handed to check_phrase_overlap
    source_documents,      \* second argument of check_plagiarism
    overall_risk,          \* the overall risk score being classified
    abstract_submissions,  \* table abstract_submissions, in rowid order
    event_id,              \* event_id argument of generate_report
    exclude_submission_id, \* exclude_submission_id argument (0 for None)
    submissions,           \* table submissions of one assignment, joined with users
    call,                  \* the operation that ran last ("none" before any)
    passes,                \* how many calls ran (a normalizer: on its own output)
    result,                \* the value the last call returned
    checker,               \* the fields of the PlagiarismChecker the calls are made on
    earlier,               \* the first call made on that instance, with its result
    workers,               \* the concurrent requests that check a stored abstract
    event_requirements,    \* plagiarism_threshold of each event (None: not configured)
    batch                  \* the run of batch_check_plagiarism: rows, position, results

vars == <<text, text2, phrase_length, source_documents, overall_risk,
          abstract_submissions, event_id, exclude_submission_id, submissions,
          call, passes, result, checker, earlier, workers, event_requirements, batch>>

\* an optional value is a sequence: None is empty, a present value x is <<x>>
None == <<>>
Some(x) == <<x>>

\* Bind(v, F) is F(v) with v evaluated once: a local variable of the source
Bind(v, F(_)) == CHOOSE r \in {F(x) : x \in {v}} : TRUE

(***************************************************************************)
(* Bounds of the model.                                                    *)
(***************************************************************************)
MaxNormLen == 4      \* longest raw text handed to the normalizers
MaxSimLen == 3       \* longest drawn text handed to the scorers
MaxWindow == 2       \* largest window size handed to check_phrase_overlap
MaxSubmissions == 2  \* most rows of abstract_submissions
MaxSources == 2      \* most source documents handed to check_plagiarism
MaxCalls == 3        \* most calls made in a row on one PlagiarismChecker
MaxWorkers == 2      \* most requests running at the same time
MaxCorpus == 2       \* most rows of a table that grows by submit_abstract
MaxFinalize == 2     \* most requests to finalize_submission in a behaviour

(***************************************************************************)
(* Characters.                                                             *)
(***************************************************************************)
LowerLetters == {"a", "b", "c", "d", "e", "f", "g", "h", "i", "j", "k", "l", "m",
                 "n", "o", "p", "q", "r", "s", "t", "u", "v", "w", "x", "y", "z"}
UpperLetters == {"A", "B", "I"}
Digits       == {"1"}
Whitespace   == {" ", "\t"}
Underscore   == {"_"}
\* members of string.punctuation used by the model ("_" is one of them)
Punctuation  == {",", "_"}

\* str.lower() on one character
lower_char(c) ==
    IF c = "A" THEN "a" ELSE IF c = "B" THEN "b" ELSE IF c = "I" THEN "i" ELSE c

\* regex classes of the re module on str patterns
IsSpace(c) == c \in Whitespace                                   \* \s
IsWordChar(c) == c \in LowerLetters \cup UpperLetters \cup Digits \cup Underscore   \* \w
IsDigit(c) == c \in Digits                                       \* \d

(***************************************************************************)
(* Generic sequence helpers.                                               *)
(***************************************************************************)
\* text.lower()
lower(s) == [i \in 1..Len(s) |-> lower_char(s[i])]

\* the positions 1..Len(s), in order
Positions(s) == [i \in 1..Len(s) |-> i]

\* re.sub(r'\s+', ' ', s): every maximal run of whitespace becomes one space
collapse_whitespace(s) ==
    Bind(SelectSeq(Positions(s),
             LAMBDA i : ~IsSpace(s[i]) \/ i = 1 \/ ~IsSpace(s[i - 1])), LAMBDA kept :
    [k \in 1..Len(kept) |-> IF IsSpace(s[kept[k]]) THEN " " ELSE s[kept[k]]])

\* re.sub(r'[^\w\s]', ' ', s): every other character becomes a space
punctuation_to_space(s) ==
    [i \in 1..Len(s) |-> IF IsWordChar(s[i]) \/ IsSpace(s[i]) THEN s[i] ELSE " "]

\* str.strip()
strip(s) ==
    LET n == Len(s)
        leading == CHOOSE k \in 0..n :
                      /\ k = n \/ ~IsSpace(s[k + 1])
                      /\ \A i \in 1..k : IsSpace(s[i])
        trailing == CHOOSE k \in 0..n :
                      /\ k = n \/ ~IsSpace(s[n - k])
                      /\ \A i \in 1..k : IsSpace(s[n + 1 - i])
    IN  IF leading = n THEN <<>> ELSE SubSeq(s, leading + 1, n - trailing)

\* PlagiarismChecker.normalize_text
normalize_text(s) ==
    Bind(lower(s), LAMBDA lowered :
    Bind(collapse_whitespace(lowered), LAMBDA collapsed :
    Bind(punctuation_to_space(collapsed), LAMBDA spaced :
    strip(spaced))))

\* re.sub(r'\d+', '', s)
remove_digits(s) == SelectSeq(s, LAMBDA c : ~IsDigit(c))
\* s.translate(str.maketrans('', '', string.punctuation))
remove_punctuation(s) == SelectSeq(s, LAMBDA c : c \notin Punctuation)

\* plagiarism_detector.clean_text
clean_text(s) ==
    Bind(lower(s), LAMBDA lowered :
    Bind(remove_digits(lowered), LAMBDA undigited :
    remove_punctuation(undigited)))

(***************************************************************************)
(* Exact rationals for the scores (Python floats in the source).           *)
(***************************************************************************)
RECURSIVE GCD(_, _)
GCD(a, b) == IF b = 0 THEN a ELSE Bind(a % b, LAMBDA r : GCD(b, r))

Rat(n, d) ==
    Bind(n, LAMBDA numerator :
    Bind(d, LAMBDA denominator :
    Bind(GCD(numerator, denominator), LAMBDA g :
        [n |-> numerator \div g, d |-> denominator \div g])))
Zero == Rat(0, 1)
One == Rat(1, 1)
RAdd(x, y) == Rat(x.n * y.d + y.n * x.d, x.d * y.d)
RMul(x, y) == Rat(x.n * y.n, x.d * y.d)
RLess(x, y) == x.n * y.d < y.n * x.d
RLeq(x, y) == x.n * y.d <= y.n * x.d
RMax(x, y) == IF RLess(x, y) THEN y ELSE x

Range(s) == {s[i] : i \in 1..Len(s)}
Max(S) == CHOOSE x \in S : \A y \in S : y <= x

(***************************************************************************)
(* difflib.SequenceMatcher(None, a, b), as called by calculate_similarity. *)
(* Indices are Python's: 0-based, lo inclusive, hi exclusive.              *)
(***************************************************************************)
AutojunkMinLen == 200

\* __chain_b: with autojunk (the default) and len(b) >= 200, the elements that
\* occur more than len(b) // 100 + 1 times are "popular" and get no b2j entry
popular(b) ==
    IF Len(b) >= AutojunkMinLen
    THEN {c \in Range(b) :
            Cardinality({j \in 1..Len(b) : b[j] = c}) > (Len(b) \div 100) + 1}
    ELSE {}

\* the two extension loops of find_longest_match that compare elements
\* (isjunk is None, so bjunk is empty and the junk loops never run)
extend_left(a, b, alo, blo, m) ==
    LET limit == IF m.i - alo < m.j - blo THEN m.i - alo ELSE m.j - blo
        k == CHOOSE k \in 0..limit :
                /\ k = limit \/ a[m.i - k] # b[m.j - k]
                /\ \A t \in 0..(k - 1) : a[m.i - t] = b[m.j - t]
    IN  [i |-> m.i - k, j |-> m.j - k, size |-> m.size + k]
\* find_longest_match without its forward extension loop
extend_right_none(a, b, ahi, bhi, m) == m

extend_right(a, b, ahi, bhi, m) ==
    LET ia == m.i + m.size
        jb == m.j + m.size
        limit == IF ahi - ia < bhi - jb THEN ahi - ia ELSE bhi - jb
        k == CHOOSE k \in 0..limit :
                /\ k = limit \/ a[ia + k + 1] # b[jb + k + 1]
                /\ \A t \in 0..(k - 1) : a[ia + t + 1] = b[jb + t + 1]
    IN  [m EXCEPT !.size = m.size + k]

\* a[i] is looked up in b2j and finds j (pop: the popular elements, not in b2j)
pairs(a, b, pop, i, j) == a[i + 1] = b[j + 1] /\ b[j + 1] \notin pop

\* the runs of j2len start where the diagonal predecessor is no pair
run_starts(a, b, pop, alo, ahi, blo, bhi) ==
    {e \in (alo..(ahi - 1)) \X (blo..(bhi - 1)) :
        /\ pairs(a, b, pop, e[1], e[2])
        /\ e[1] = alo \/ e[2] = blo \/ ~pairs(a, b, pop, e[1] - 1, e[2] - 1)}

\* the largest value j2len reaches on the run that starts at e
run_size(a, b, pop, ahi, bhi, e) ==
    LET limit == IF ahi - e[1] < bhi - e[2] THEN ahi - e[1] ELSE bhi - e[2]
    IN  CHOOSE k \in 1..limit :
           /\ k = limit \/ ~pairs(a, b, pop, e[1] + k, e[2] + k)
           /\ \A t \in 1..(k - 1) : pairs(a, b, pop, e[1] + t, e[2] + t)

\* SequenceMatcher.find_longest_match(alo, ahi, blo, bhi): the longest block
\* a[i:i+k] == b[j:j+k] built from b2j; of the longest ones the one starting
\* earliest in a, and of those the one starting earliest in b
find_longest_match(a, b, alo, ahi, blo, bhi) ==
    Bind(popular(b), LAMBDA pop :
    Bind({[i |-> e[1], j |-> e[2], size |-> run_size(a, b, pop, ahi, bhi, e)] :
            e \in run_starts(a, b, pop, alo, ahi, blo, bhi)}, LAMBDA runs :
    Bind(IF runs = {}
         THEN [i |-> alo, j |-> blo, size |-> 0]
         ELSE CHOOSE r \in runs : \A q \in runs :
                 \/ r.size > q.size
                 \/ r.size = q.size /\ r.i < q.i
                 \/ r.size = q.size /\ r.i = q.i /\ r.j <= q.j, LAMBDA best :
    Bind(extend_left(a, b, alo, blo, best), LAMBDA extended :
    extend_right(a, b, ahi, bhi, extended)))))

\* SequenceMatcher.get_matching_blocks, summed: the number of matched elements
RECURSIVE matches(_, _, _, _, _, _)
matches(a, b, alo, ahi, blo, bhi) ==
    Bind(find_longest_match(a, b, alo, ahi, blo, bhi), LAMBDA m :
        IF m.size = 0 THEN 0
        ELSE m.size
             + (IF alo < m.i /\ blo < m.j THEN matches(a, b, alo, m.i, blo, m.j) ELSE 0)
             + (IF m.i + m.size < ahi /\ m.j + m.size < bhi
                THEN matches(a, b, m.i + m.size, ahi, m.j + m.size, bhi) ELSE 0))

\* SequenceMatcher.ratio(): 2.0 * matches / length, and 1.0 when length is 0
ratio(a, b) ==
    IF Len(a) + Len(b) = 0 THEN One
    ELSE Rat(2 * matches(a, b, 0, Len(a), 0, Len(b)), Len(a) + Len(b))

\* calculate_similarity normalizing its first argument only
calculate_similarity_first_only(text1, t2) ==
    Bind(normalize_text(text1), LAMBDA normalized_text1 : ratio(normalized_text1, t2))

\* PlagiarismChecker.calculate_similarity
calculate_similarity(text1, t2) ==
    Bind(normalize_text(text1), LAMBDA normalized_text1 :
    Bind(normalize_text(t2), LAMBDA normalized_text2 :
    ratio(normalized_text1, normalized_text2)))

(***************************************************************************)
(* Phrase overlap.                                                         *)
(***************************************************************************)
\* str.split(): the maximal runs of non-whitespace characters
split(s) ==
    Bind(SelectSeq(Positions(s),
             LAMBDA i : ~IsSpace(s[i]) /\ (i = 1 \/ IsSpace(s[i - 1]))), LAMBDA first :
    Bind(SelectSeq(Positions(s),
             LAMBDA i : ~IsSpace(s[i]) /\ (i = Len(s) \/ IsSpace(s[i + 1]))), LAMBDA last :
    [k \in 1..Len(first) |-> SubSeq(s, first[k], last[k])]))

\* ' '.join(words)
RECURSIVE join(_)
join(words) ==
    IF words = <<>> THEN <<>>
    ELSE IF Len(words) = 1 THEN words[1]
    ELSE LET half == Len(words) \div 2
         IN  join(SubSeq(words, 1, half)) \o <<" ">>
               \o join(SubSeq(words, half + 1, Len(words)))

\* extract_phrases giving a text shorter than the window as one phrase
extract_phrases_padded(s, n) ==
    Bind(split(s), LAMBDA words :
        IF words # <<>> /\ Len(words) < n THEN <<join(words)>>
        ELSE [i \in 1..(Len(words) - n + 1) |-> join(SubSeq(words, i, i + n - 1))])

\* PlagiarismChecker.extract_phrases
extract_phrases(s, n) ==
    Bind(split(s), LAMBDA words :
    [i \in 1..(Len(words) - n + 1) |-> join(SubSeq(words, i, i + n - 1))])

\* the phrases of a raw text, as the set check_phrase_overlap builds
phrase_set(t, n) ==
    Bind(normalize_text(t), LAMBDA normalized : Range(extract_phrases(normalized, n)))

Min(x, y) == IF x < y THEN x ELSE y

\* check_phrase_overlap counting the common phrases of the first text with their
\* repetitions (the list of phrases instead of the set)
check_phrase_overlap_repeated(text1, t2, n) ==
    Bind(normalize_text(text1), LAMBDA normalized :
    Bind(extract_phrases(normalized, n), LAMBDA list1 :
    Bind(Range(list1), LAMBDA phrases1 :
    Bind(phrase_set(t2, n), LAMBDA phrases2 :
        IF phrases1 = {} \/ phrases2 = {} THEN Zero
        ELSE Rat(Cardinality({i \in 1..Len(list1) : list1[i] \in phrases2}),
                 Min(Cardinality(phrases1), Cardinality(phrases2)))))))

\* check_phrase_overlap dividing by the size of the union of the two phrase sets
check_phrase_overlap_jaccard(text1, t2, n) ==
    Bind(phrase_set(text1, n), LAMBDA phrases1 :
    Bind(phrase_set(t2, n), LAMBDA phrases2 :
        IF phrases1 = {} \/ phrases2 = {} THEN Zero
        ELSE Rat(Cardinality(phrases1 \cap phrases2),
                 Cardinality(phrases1 \cup phrases2))))

\* PlagiarismChecker.check_phrase_overlap
check_phrase_overlap(text1, t2, n) ==
    Bind(phrase_set(text1, n), LAMBDA phrases1 :
    Bind(phrase_set(t2, n), LAMBDA phrases2 :
        IF phrases1 = {} \/ phrases2 = {} THEN Zero
        ELSE Rat(Cardinality(phrases1 \cap phrases2),
                 Min(Cardinality(phrases1), Cardinality(phrases2)))))

(***************************************************************************)
(* Boilerplate phrases.                                                    *)
(***************************************************************************)
common_phrases == <<
    <<"i","n"," ","t","h","i","s"," ","p","a","p","e","r"," ","w","e">>,
    <<"t","h","e"," ","p","u","r","p","o","s","e"," ","o","f"," ","t","h","i","s"," ",
      "s","t","u","d","y">>,
    <<"o","u","r"," ","r","e","s","e","a","r","c","h"," ","s","h","o","w","s">>,
    <<"t","h","e"," ","r","e","s","u","l","t","s"," ","i","n","d","i","c","a","t","e">>,
    <<"i","n"," ","c","o","n","c","l","u","s","i","o","n">>,
    <<"t","h","i","s"," ","s","t","u","d","y"," ","a","i","m","s"," ","t","o">>,
    <<"t","h","e"," ","m","a","i","n"," ","o","b","j","e","c","t","i","v","e">>,
    <<"o","u","r"," ","f","i","n","d","i","n","g","s"," ","s","u","g","g","e","s","t">>,
    <<"p","r","e","v","i","o","u","s"," ","r","e","s","e","a","r","c","h"," ",
      "h","a","s"," ","s","h","o","w","n">>,
    <<"i","t"," ","i","s"," ","i","m","p","o","r","t","a","n","t"," ","t","o"," ",
      "n","o","t","e">> >>

\* phrase in s
IsSubstring(p, s) ==
    \E k \in 0..(Len(s) - Len(p)) : \A i \in 1..Len(p) : s[k + i] = p[i]

\* check_common_phrases counting every occurrence of a phrase
check_common_phrases_every_occurrence(s) ==
    Bind(normalize_text(s), LAMBDA normalized_text :
    Rat(Cardinality({<<k, at>> \in (1..Len(common_phrases)) \X (1..Len(normalized_text)) :
                        /\ at + Len(common_phrases[k]) - 1 <= Len(normalized_text)
                        /\ SubSeq(normalized_text, at, at + Len(common_phrases[k]) - 1)
                               = common_phrases[k]}),
        Len(common_phrases)))

\* PlagiarismChecker.check_common_phrases
check_common_phrases(s) ==
    Bind(normalize_text(s), LAMBDA normalized_text :
    Rat(Cardinality({k \in 1..Len(common_phrases) :
                        IsSubstring(common_phrases[k], normalized_text)}),
        Len(common_phrases)))

(***************************************************************************)
(* The risk report of PlagiarismChecker.                                   *)
(***************************************************************************)
min_similarity_threshold == Rat(7, 10)
DefaultPhraseLength == 5
ShortTextWords == 50

\* PlagiarismChecker(): the fields __init__ sets
PlagiarismChecker ==
    [min_similarity_threshold |-> min_similarity_threshold, min_phrase_length |-> 5]

\* a method that lowers the threshold of its instance
checker_after_call_lowered(self) == [self EXCEPT !.min_similarity_threshold = Zero]

\* the fields after a method ran: no method assigns to self
checker_after_call(self) == self

\* SELECT id, title, abstract_text: the columns of a fetched row
fetched(table) ==
    Bind(table, LAMBDA rows :
    [i \in 1..Len(rows) |->
        [id |-> rows[i].id, title |-> rows[i].title,
         abstract_text |-> rows[i].abstract_text]])

\* the WHERE clause without its condition on is_latest_version
select_submissions_any_version(table, ev, exclude) ==
    fetched(SelectSeq(table,
                LAMBDA row : row.event_id = ev /\ (exclude = 0 \/ row.id # exclude)))

\* the WHERE clause with a condition on plagiarism_status added
select_submissions_unflagged(table, ev, exclude) ==
    fetched(SelectSeq(table, LAMBDA row :
        /\ row.event_id = ev
        /\ row.is_latest_version = 1
        /\ row.plagiarism_status # "flagged"
        /\ (exclude = 0 \/ row.id # exclude)))

\* the WHERE clause of check_against_database; "if exclude_submission_id:" is
\* false for None and for 0, which the model both writes 0 (ids start at 1)
select_submissions(table, ev, exclude) ==
    fetched(SelectSeq(table, LAMBDA row :
        /\ row.event_id = ev
        /\ row.is_latest_version = 1
        /\ (exclude = 0 \/ row.id # exclude)))

\* the similarity of a row taken from its abstract alone
current_similarity_abstract_only(t, submission) ==
    calculate_similarity(t, submission.abstract_text)

\* max(title_similarity, abstract_similarity)
current_similarity(t, submission) ==
    RMax(calculate_similarity(t, submission.title),
         calculate_similarity(t, submission.abstract_text))

\* the phrase overlap the loop computes for one row
row_phrase_overlap(t, submission) ==
    check_phrase_overlap(t, submission.abstract_text, DefaultPhraseLength)

\* the loop body remembering a row that equals the maximum so far
scan_submission_keep_last(t, submission, acc) ==
    Bind(current_similarity(t, submission), LAMBDA current :
    Bind(row_phrase_overlap(t, submission), LAMBDA phrase_overlap :
        [max_similarity |->
            IF RLess(acc.max_similarity, current) THEN current ELSE acc.max_similarity,
         similar_submission |->
            IF RLeq(acc.max_similarity, current) /\ current # Zero THEN Some(submission)
            ELSE acc.similar_submission,
         max_phrase_overlap |->
            IF RLess(acc.max_phrase_overlap, phrase_overlap) THEN phrase_overlap
            ELSE acc.max_phrase_overlap]))

\* the loop body taking the scores of the row at hand for the maxima
scan_submission_last_wins(t, submission, acc) ==
    Bind(current_similarity(t, submission), LAMBDA current :
    Bind(row_phrase_overlap(t, submission), LAMBDA phrase_overlap :
        [max_similarity |-> current,
         similar_submission |->
            IF RLess(Zero, current) THEN Some(submission) ELSE acc.similar_submission,
         max_phrase_overlap |-> phrase_overlap]))

\* one pass of the loop body over a selected row
scan_submission(t, submission, acc) ==
    Bind(current_similarity(t, submission), LAMBDA current :
    Bind(row_phrase_overlap(t, submission), LAMBDA phrase_overlap :
        [max_similarity |->
            IF RLess(acc.max_similarity, current) THEN current ELSE acc.max_similarity,
         similar_submission |->
            IF RLess(acc.max_similarity, current) THEN Some(submission)
            ELSE acc.similar_submission,
         max_phrase_overlap |->
            IF RLess(acc.max_phrase_overlap, phrase_overlap) THEN phrase_overlap
            ELSE acc.max_phrase_overlap]))

\* the loop over the selected rows
RECURSIVE scan_submissions(_, _, _)
scan_submissions(t, rows, acc) ==
    IF rows = <<>> THEN acc
    ELSE Bind(scan_submission(t, Head(rows), acc), LAMBDA next :
              scan_submissions(t, Tail(rows), next))

\* the combination with the weights 0.7 and 0.5
combined_score_overweighted(max_similarity, max_phrase_overlap) ==
    RAdd(RMul(max_similarity, Rat(7, 10)), RMul(max_phrase_overlap, Rat(5, 10)))

\* combined_score = max_similarity * 0.7 + max_phrase_overlap * 0.3
combined_score(max_similarity, max_phrase_overlap) ==
    RAdd(RMul(max_similarity, Rat(7, 10)), RMul(max_phrase_overlap, Rat(3, 10)))

\* check_against_database once the rows are fetched, on the instance self
score_against(self, t, selected) ==
    Bind(scan_submissions(t, selected,
             [max_similarity |-> Zero, max_phrase_overlap |-> Zero,
              similar_submission |-> None]), LAMBDA found :
    Bind(combined_score(found.max_similarity, found.max_phrase_overlap), LAMBDA combined :
        [similarity_score |-> combined,
         text_similarity |-> found.max_similarity,
         phrase_overlap |-> found.max_phrase_overlap,
         similar_submission |-> found.similar_submission,
         is_suspicious |-> RLess(self.min_similarity_threshold, combined)]))

\* PlagiarismChecker.check_against_database
check_against_database(t, table, ev, exclude) ==
    Bind(select_submissions(table, ev, exclude), LAMBDA selected :
    score_against(PlagiarismChecker, t, selected))

\* the penalty with the comparison written <= 50
short_text_penalty_inclusive(t) == IF Len(split(t)) <= ShortTextWords THEN One ELSE Zero

\* (len(text.split()) < 50), the factor of the short-text penalty
short_text_penalty(t) == IF Len(split(t)) < ShortTextWords THEN One ELSE Zero

\* the sum with the weights 0.7, 0.2 and 0.1
sum_risk_factors_light_penalty(similarity_score, common_phrases_ratio, penalty) ==
    RAdd(RAdd(RMul(similarity_score, Rat(7, 10)), RMul(common_phrases_ratio, Rat(1, 5))),
         RMul(penalty, Rat(1, 10)))

\* the sum with the weights 0.9, 0.2 and 0.2
sum_risk_factors_heavy_similarity(similarity_score, common_phrases_ratio, penalty) ==
    RAdd(RAdd(RMul(similarity_score, Rat(9, 10)), RMul(common_phrases_ratio, Rat(1, 5))),
         RMul(penalty, Rat(1, 5)))

\* overall_risk = sum(risk_factors)
sum_risk_factors(similarity_score, common_phrases_ratio, penalty) ==
    RAdd(RAdd(RMul(similarity_score, Rat(3, 5)), RMul(common_phrases_ratio, Rat(1, 5))),
         RMul(penalty, Rat(1, 5)))

\* the chain with the comparisons written >=
risk_level_inclusive(risk) ==
    IF RLeq(Rat(4, 5), risk) THEN "HIGH"
    ELSE IF RLeq(Rat(1, 2), risk) THEN "MEDIUM"
    ELSE IF RLeq(Rat(3, 10), risk) THEN "LOW"
    ELSE "MINIMAL"

\* the if/elif chain that determines risk_level
risk_level(risk) ==
    IF RLess(Rat(4, 5), risk) THEN "HIGH"
    ELSE IF RLess(Rat(1, 2), risk) THEN "MEDIUM"
    ELSE IF RLess(Rat(3, 10), risk) THEN "LOW"
    ELSE "MINIMAL"

\* is_suspicious taken against min_similarity_threshold, as check_against_database does
is_suspicious_by_threshold(risk) == RLess(min_similarity_threshold, risk)

\* 'is_suspicious': overall_risk > 0.5
is_suspicious(risk) == RLess(Rat(1, 2), risk)

\* _generate_recommendations with the comparisons written >=
generate_recommendations_inclusive(risk, db_check) ==
    (IF RLeq(Rat(4, 5), risk)
     THEN <<"URGENT: Manual review required - high similarity detected",
            "Consider rejecting or requesting major revision">>
     ELSE IF RLeq(Rat(1, 2), risk)
     THEN <<"Manual review recommended - moderate similarity detected",
            "Request clarification or minor revision">>
     ELSE IF RLeq(Rat(3, 10), risk)
     THEN <<"Low risk detected - brief review suggested">>
     ELSE <<"Minimal plagiarism risk - safe to approve">>)
    \o (IF db_check.similar_submission # None
        THEN <<<<"Similar content found in submission ID: ",
                 db_check.similar_submission[1].id>>>>
        ELSE <<>>)

\* PlagiarismChecker._generate_recommendations
generate_recommendations(risk, db_check) ==
    (IF RLess(Rat(4, 5), risk)
     THEN <<"URGENT: Manual review required - high similarity detected",
            "Consider rejecting or requesting major revision">>
     ELSE IF RLess(Rat(1, 2), risk)
     THEN <<"Manual review recommended - moderate similarity detected",
            "Request clarification or minor revision">>
     ELSE IF RLess(Rat(3, 10), risk)
     THEN <<"Low risk detected - brief review suggested">>
     ELSE <<"Minimal plagiarism risk - safe to approve">>)
    \o (IF db_check.similar_submission # None
        THEN <<<<"Similar content found in submission ID: ",
                 db_check.similar_submission[1].id>>>>
        ELSE <<>>)

\* generate_report once check_against_database returned db_check
report_from(t, db_check) ==
    Bind(check_common_phrases(t), LAMBDA common_phrases_ratio :
    Bind(sum_risk_factors(db_check.similarity_score, common_phrases_ratio,
                          short_text_penalty(t)), LAMBDA risk :
        [overall_score |-> risk,
         risk_level |-> risk_level(risk),
         database_similarity |-> db_check.similarity_score,
         text_similarity |-> db_check.text_similarity,
         phrase_overlap |-> db_check.phrase_overlap,
         common_phrases_ratio |-> common_phrases_ratio,
         similar_submission |-> db_check.similar_submission,
         is_suspicious |-> is_suspicious(risk),
         recommendations |-> generate_recommendations(risk, db_check)]))

\* PlagiarismChecker.generate_report
generate_report(t, table, ev, exclude) ==
    Bind(check_against_database(t, table, ev, exclude), LAMBDA db_check :
    report_from(t, db_check))

(***************************************************************************)
(* Vector similarity: plagiarism_detector.check_plagiarism.                *)
(***************************************************************************)
Return(v) == [kind |-> "return", value |-> v]
Raise(e) == [kind |-> "raise", exception |-> e]

\* TfidfVectorizer's default analyzer: token_pattern (?u)\b\w\w+\b finds the
\* maximal runs of two or more word characters
tokenize(s) ==
    Bind(SelectSeq(Positions(s),
             LAMBDA i : IsWordChar(s[i]) /\ (i = 1 \/ ~IsWordChar(s[i - 1]))), LAMBDA first :
    Bind(SelectSeq(Positions(s),
             LAMBDA i : IsWordChar(s[i]) /\ (i = Len(s) \/ ~IsWordChar(s[i + 1]))), LAMBDA last :
    Bind(SelectSeq(Positions(first), LAMBDA k : last[k] - first[k] + 1 >= 2), LAMBDA long :
    [k \in 1..Len(long) |-> lower(SubSeq(s, first[long[k]], last[long[k]]))])))

\* term counts of one document
term_count(tokens, term) == Cardinality({i \in 1..Len(tokens) : tokens[i] = term})

\* cosine_similarity of the TF-IDF rows of two documents.  The weight of a term
\* is its count times its idf (positive, the same for both rows), so the cosine
\* is 0 exactly when the rows share no term, 1 exactly when the counts are
\* proportional, and strictly between otherwise.
cosine_similarity(tokens0, tokens1) ==
    LET terms0 == Range(tokens0)
        terms1 == Range(tokens1)
    IN  IF terms0 \cap terms1 = {} THEN "zero"
        ELSE IF /\ terms0 = terms1
                /\ \A t \in terms0, u \in terms0 :
                      term_count(tokens0, t) * term_count(tokens1, u)
                        = term_count(tokens0, u) * term_count(tokens1, t)
             THEN "one"
             ELSE "between"

\* f"{score * 100:.2f}%"
format_percent(score) ==
    IF score = "zero" THEN "0.00%" ELSE IF score = "one" THEN "100.00%" ELSE "between"

\* what the vectorizer and cosine_similarity give for the documents
vectorize_and_compare(user_text, sources) ==
    Bind(<<user_text>> \o sources, LAMBDA documents :
    Bind([i \in 1..Len(documents) |-> tokenize(clean_text(documents[i]))], LAMBDA tokens :
        \* fit_transform: "empty vocabulary; perhaps the documents only contain
        \* stop words"
        IF \A i \in 1..Len(documents) : tokens[i] = <<>> THEN Raise("ValueError")
        \* cosine_similarity: "Found array with 0 sample(s)"
        ELSE IF sources = <<>> THEN Raise("ValueError")
        ELSE Return([i \in 1..Len(sources) |->
                       [source |-> sources[i],
                        similarity |->
                           format_percent(cosine_similarity(tokens[1], tokens[i + 1]))]])))

\* check_plagiarism without the guard on len(cleaned_documents)
check_plagiarism_no_length_guard(user_text, sources) ==
    IF user_text = <<>> THEN Return(<<>>) ELSE vectorize_and_compare(user_text, sources)

\* check_plagiarism without the guard on an empty user_text
check_plagiarism_no_empty_guard(user_text, sources) ==
    IF Len(<<user_text>> \o sources) < 2 THEN Return(<<>>)
    ELSE vectorize_and_compare(user_text, sources)

\* plagiarism_detector.check_plagiarism
check_plagiarism(user_text, sources) ==
    IF user_text = <<>> THEN Return(<<>>)
    ELSE IF Len(<<user_text>> \o sources) < 2 THEN Return(<<>>)
    ELSE vectorize_and_compare(user_text, sources)

(***************************************************************************)
(* The faculty views that compare a submission with its peers.             *)
(***************************************************************************)
\* the report both views build for one submission against the other rows
peer_report(rows, current) ==
    Bind(SelectSeq(rows, LAMBDA sub : sub.id # current.id), LAMBDA other_data :
    Bind([j \in 1..Len(other_data) |-> other_data[j].content], LAMBDA other_documents :
    Bind(IF other_documents # <<>>
         THEN check_plagiarism(current.content, other_documents)
         ELSE Return(<<>>), LAMBDA plagiarism_results :
        IF plagiarism_results.kind = "raise" THEN plagiarism_results
        ELSE Return([submission_id |-> current.id,
                     plagiarism_report |->
                        [j \in 1..Len(plagiarism_results.value) |->
                            [similarity |-> plagiarism_results.value[j].similarity,
                             source_user |-> other_data[j].username]]]))))

(***************************************************************************)
(* Input domains.                                                          *)
(***************************************************************************)
RECURSIVE SeqsUpTo(_, _)
SeqsUpTo(S, n) ==
    IF n = 0 THEN {<<>>}
    ELSE LET shorter == SeqsUpTo(S, n - 1)
         IN  shorter \cup {Append(s, c) : s \in {t \in shorter : Len(t) = n - 1}, c \in S}

NormAlphabet == {"a", "A", "1", " ", "\t", ",", "_"}
NormTexts == SeqsUpTo(NormAlphabet, MaxNormLen)

SimAlphabet == {"a", "b", " ", ","}
\* texts long enough to hold a boilerplate phrase or a window of five words
SampleTexts == {
    <<"I","n"," ","c","o","n","c","l","u","s","i","o","n",","," ","a">>,
    <<"i","n",","," ","c","o","n","c","l","u","s","i","o","n">>,
    <<"o","u","r"," ","r","e","s","e","a","r","c","h"," ","s","h","o","w","s"," ",
      "i","n","\t","c","o","n","c","l","u","s","i","o","n">>,
    <<"a"," ","b"," ","a","b">>,
    <<"a"," ","a","b"," ","b","a">>,
    <<"a"," ","b"," ","a"," ","b"," ","a"," ","b">>,
    <<"a"," ","b"," ","a"," ","b"," ","a"," ","a">>,
    <<"B"," ","a",",","b"," ","a","\t","b">>,
    <<"I","n"," ","c","o","n","c","l","u","s","i","o","n"," ",
      "i","n","\t"," ","c","o","n","c","l","u","s","i","o","n">> }
SimTexts == SeqsUpTo(SimAlphabet, MaxSimLen) \cup SampleTexts
\* a text of 201 characters, where SequenceMatcher's autojunk sets in: "a" and
\* the space are popular, "x" and "y" are not
LongText ==
    join(<<<<"x">>>> \o [i \in 1..49 |-> <<"a">>] \o <<<<"y">>>> \o [i \in 1..50 |-> <<"a">>])

\* the variables an operation of another component leaves at rest
NoScorerInput == text2 = <<>> /\ phrase_length = 0
NoVectorInput == source_documents = <<>> /\ submissions = <<>>
NoReportInput ==
    /\ overall_risk = Zero
    /\ abstract_submissions = <<>>
    /\ event_id = 0
    /\ exclude_submission_id = 0
NotCalled ==
    /\ call = "none" /\ passes = 0 /\ result = None
    /\ checker = PlagiarismChecker /\ earlier = None /\ workers = <<>>
    /\ event_requirements = <<>> /\ batch = None

scorer_vars == <<text, text2, phrase_length>>
other_vars == <<source_documents, overall_risk, abstract_submissions, event_id,
                exclude_submission_id, submissions, checker, earlier, workers,
                event_requirements, batch>>

(***************************************************************************)
(* The normalizers, applied once and then again to their own output.       *)
(***************************************************************************)
InitNorm ==
    /\ text \in NormTexts
    /\ NoScorerInput /\ NoVectorInput /\ NoReportInput /\ NotCalled

NormalizeText ==
    /\ call = "none"
    /\ call' = "normalize_text"
    /\ result' = normalize_text(text)
    /\ passes' = 1
    /\ UNCHANGED <<scorer_vars, other_vars>>

NormalizeTextAgain ==
    /\ call = "normalize_text"
    /\ passes = 1
    /\ text' = result
    /\ result' = normalize_text(result)
    /\ passes' = 2
    /\ UNCHANGED <<text2, phrase_length, other_vars, call>>

CleanText ==
    /\ call = "none"
    /\ call' = "clean_text"
    /\ result' = clean_text(text)
    /\ passes' = 1
    /\ UNCHANGED <<scorer_vars, other_vars>>

CleanTextAgain ==
    /\ call = "clean_text"
    /\ passes = 1
    /\ text' = result
    /\ result' = clean_text(result)
    /\ passes' = 2
    /\ UNCHANGED <<text2, phrase_length, other_vars, call>>

NextNorm == NormalizeText \/ NormalizeTextAgain \/ CleanText \/ CleanTextAgain

SpecNorm == InitNorm /\ [][NextNorm]_vars

(***************************************************************************)
(* The scorers of PlagiarismChecker, each called once on drawn texts.      *)
(***************************************************************************)
InitSim ==
    /\ \/ text \in SimTexts /\ text2 \in SimTexts
       \/ text = LongText /\ text2 = LongText
    /\ phrase_length = 0
    /\ NoVectorInput /\ NoReportInput /\ NotCalled

CalculateSimilarity ==
    /\ call = "none"
    /\ call' = "calculate_similarity"
    /\ result' = calculate_similarity(text, text2)
    /\ UNCHANGED <<scorer_vars, other_vars, passes>>

CheckPhraseOverlap ==
    /\ call = "none"
    /\ \E n \in (1..MaxWindow) \cup {DefaultPhraseLength} :
          /\ phrase_length' = n
          /\ result' = check_phrase_overlap(text, text2, n)
    /\ call' = "check_phrase_overlap"
    /\ UNCHANGED <<text, text2, other_vars, passes>>

CheckCommonPhrases ==
    /\ call = "none"
    /\ call' = "check_common_phrases"
    /\ result' = check_common_phrases(text)
    /\ UNCHANGED <<scorer_vars, other_vars, passes>>

NextSim == CalculateSimilarity \/ CheckPhraseOverlap \/ CheckCommonPhrases

SpecSim == InitSim /\ [][NextSim]_vars

(***************************************************************************)
(* Risk classification of a given overall score.                           *)
(***************************************************************************)
RiskScores == {Rat(k, 100) : k \in 0..100}

InitRisk ==
    /\ overall_risk \in RiskScores
    /\ abstract_submissions = <<>> /\ event_id = 0 /\ exclude_submission_id = 0
    /\ text = <<>>
    /\ NoScorerInput /\ NoVectorInput /\ NotCalled

DetermineRiskLevel ==
    /\ call = "none"
    /\ call' = "risk_level"
    /\ result' = [overall_score |-> overall_risk,
                  risk_level |-> risk_level(overall_risk),
                  is_suspicious |-> is_suspicious(overall_risk)]
    /\ UNCHANGED <<scorer_vars, other_vars, passes>>

NextRisk == DetermineRiskLevel

SpecRisk == InitRisk /\ [][NextRisk]_vars

(***************************************************************************)
(* generate_report on a candidate and a table of abstract submissions.     *)
(***************************************************************************)
\* n copies of a word, as a list of words
Repeat(word, n) == [i \in 1..n |-> word]
Words(letters) == [i \in 1..Len(letters) |-> <<letters[i]>>]

Abstract5 == join(Words(<<"a", "b", "c", "d", "e">>))
Abstract6 == join(Words(<<"a", "b", "c", "d", "e", "f">>))
Other5 == join(Words(<<"f", "g", "h", "i", "j">>))
Conclusion5 ==
    join(<< <<"i","n">>, <<"c","o","n","c","l","u","s","i","o","n">>, <<"a">>, <<"b">>, <<"c">> >>)
\* 49 and 50 words, the first five those of Abstract5
Words49 == join(Words(<<"a", "b", "c", "d", "e">>) \o Repeat(<<"x">>, ShortTextWords - 6))
Words50 == join(Words(<<"a", "b", "c", "d", "e">>) \o Repeat(<<"x">>, ShortTextWords - 5))

\* the ten boilerplate phrases one after the other, 36 words
Boilerplate == join(common_phrases)

Candidates == {
    <<>>,
    Abstract5,
    <<"A", ",", "b", "\t", "c", " ", " ", "d", " ", "e">>,
    Abstract6,
    <<"a", " ", "b", " ", "c">>,
    Conclusion5,
    Words49,
    Words50 }

Events == {1, 2}

RowKinds == {
    [event_id |-> 1, is_latest_version |-> 1, title |-> <<"a", " ", "b">>,
     abstract_text |-> Abstract5],
    [event_id |-> 1, is_latest_version |-> 1, title |-> <<"B">>,
     abstract_text |-> Conclusion5],
    [event_id |-> 1, is_latest_version |-> 0, title |-> <<"a", " ", "b">>,
     abstract_text |-> Abstract6],
    [event_id |-> 1, is_latest_version |-> 1, title |-> Abstract6,
     abstract_text |-> Other5],
    [event_id |-> 2, is_latest_version |-> 1, title |-> <<",">>,
     abstract_text |-> Words50] }

\* tables of at most n rows; the id of a row is its rowid
Tables(n) ==
    {[i \in 1..Len(kinds) |->
        [id |-> i, event_id |-> kinds[i].event_id,
         is_latest_version |-> kinds[i].is_latest_version,
         title |-> kinds[i].title, abstract_text |-> kinds[i].abstract_text]] :
     kinds \in SeqsUpTo(RowKinds, n)}

\* a table whose one row holds the ten boilerplate phrases
BoilerplateTable ==
    <<[id |-> 1, event_id |-> 2, is_latest_version |-> 1, title |-> <<"b">>,
       abstract_text |-> Boilerplate]>>

InitReport ==
    /\ \/ text \in Candidates /\ abstract_submissions \in Tables(MaxSubmissions)
       \/ text = Boilerplate /\ abstract_submissions = BoilerplateTable
    /\ overall_risk = Zero /\ event_id = 0 /\ exclude_submission_id = 0
    /\ NoScorerInput /\ NoVectorInput /\ NotCalled

GenerateReport ==
    /\ call = "none"
    /\ \E ev \in Events, exclude \in 0..Len(abstract_submissions) :
          /\ event_id' = ev
          /\ exclude_submission_id' = exclude
          /\ result' = generate_report(text, abstract_submissions, ev, exclude)
    /\ call' = "generate_report"
    /\ UNCHANGED <<scorer_vars, source_documents, overall_risk, abstract_submissions,
                   submissions, passes, checker, earlier, workers, event_requirements,
                   batch>>

NextReport == GenerateReport

SpecReport == InitReport /\ [][NextReport]_vars

(***************************************************************************)
(* check_plagiarism, called directly and by the faculty views.             *)
(***************************************************************************)
VecDocs == {
    <<>>,
    <<"a">>,
    <<",", ",">>,
    <<"a", "b">>,
    <<"a", ",", "b">>,
    <<"A", "B", " ", "c", "d">>,
    <<"c", "d">>,
    <<"a", "b", " ", "a", "b", "1">> }

Usernames == <<"alice", "bob", "carol", "dave">>

\* the rows of one assignment: one submission per student
SubmissionTables(n) ==
    {[i \in 1..Len(contents) |->
        [id |-> i, content |-> contents[i], username |-> Usernames[i]]] :
     contents \in SeqsUpTo(VecDocs, n) \ {<<>>}}

InitVec ==
    /\ \/ /\ text \in VecDocs
          /\ source_documents \in SeqsUpTo(VecDocs, MaxSources)
          /\ submissions = <<>>
       \/ /\ text = <<>>
          /\ source_documents = <<>>
          /\ submissions \in SubmissionTables(MaxSources + 1)
    /\ NoScorerInput /\ NoReportInput /\ NotCalled

CheckPlagiarism ==
    /\ call = "none"
    /\ call' = "check_plagiarism"
    /\ result' = check_plagiarism(text, source_documents)
    /\ UNCHANGED <<scorer_vars, other_vars, passes>>

\* faculty.view_submission_detail: the report of one submission
SubmissionDetail ==
    /\ call = "none"
    /\ \E k \in 1..Len(submissions) :
          /\ text' = submissions[k].content
          /\ result' = peer_report(submissions, submissions[k])
    /\ call' = "submission_detail"
    /\ UNCHANGED <<text2, phrase_length, other_vars, passes>>

\* faculty.view_submissions: the reports of every submission on the page
\* (ORDER BY submitted_at DESC, id DESC); the first failing comparison ends it
ViewSubmissions ==
    /\ call = "none"
    /\ submissions # <<>>
    /\ LET n == Len(submissions)
           reports == [k \in 1..n |-> peer_report(submissions, submissions[n + 1 - k])]
           failed == {k \in 1..n : reports[k].kind = "raise"}
       IN  result' = IF failed # {}
                     THEN reports[CHOOSE k \in failed : \A l \in failed : k <= l]
                     ELSE Return([k \in 1..n |-> reports[k].value])
    /\ call' = "view_submissions"
    /\ UNCHANGED <<scorer_vars, other_vars, passes>>

NextVec == CheckPlagiarism \/ SubmissionDetail \/ ViewSubmissions

SpecVec == InitVec /\ [][NextVec]_vars

(***************************************************************************)
(* C1: normalization is idempotent -- for both normalizers, normalizing    *)
(* the output of a first pass gives that output back unchanged.            *)
(* After the second pass `text` holds the output of the first pass and     *)
(* `result` the output of the second.                                      *)
(***************************************************************************)
C1_NormalizeIdempotent == passes = 2 => result = text

(***************************************************************************)
(* C2 as stated: sequence similarity is symmetric -- the ratio of          *)
(* (text, text2) equals the ratio of (text2, text) for all texts.          *)
(***************************************************************************)
C2_Symmetric ==
    call = "calculate_similarity" => result = calculate_similarity(text2, text)

\* one normalized text occurs in the other as a contiguous block
Contains(s, p) == IsSubstring(p, s)

(***************************************************************************)
(* C2 amended: the ratio is 2 * M / (len(A) + len(B)) with M the size of   *)
(* the greedy alignment of A against B, which depends on the order of the  *)
(* arguments.  The two orders agree when one normalized text is empty or   *)
(* occurs in the other as a contiguous block, and one order gives 0        *)
(* exactly when the other does (texts below the autojunk length of 200).   *)
(***************************************************************************)
C2_SymmetricWhenContained ==
    call = "calculate_similarity" =>
        LET a == normalize_text(text)
            b == normalize_text(text2)
            swapped == calculate_similarity(text2, text)
        IN  (Len(a) < AutojunkMinLen /\ Len(b) < AutojunkMinLen) =>
              /\ (Contains(a, b) \/ Contains(b, a)) => result = swapped
              /\ (result = Zero) <=> (swapped = Zero)

C2_Witness ==
    /\ call = "calculate_similarity"
    /\ normalize_text(text) # normalize_text(text2)
    /\ normalize_text(text) # <<>>
    /\ Contains(normalize_text(text2), normalize_text(text))
    /\ result = calculate_similarity(text2, text)
    /\ RLess(Zero, result)

(***************************************************************************)
(* C3: the risk level uses strictly-greater-than cut-offs, high to low:    *)
(* above 0.8 HIGH, else above 0.5 MEDIUM, else above 0.3 LOW, else         *)
(* MINIMAL; 0.9, 0.6, 0.4, 0.1 give HIGH, MEDIUM, LOW, MINIMAL and the     *)
(* boundary values 0.8, 0.5, 0.3 give MEDIUM, LOW, MINIMAL.                *)
(***************************************************************************)
C3_RiskThresholds ==
    call = "risk_level" =>
        /\ RLess(Rat(4, 5), overall_risk) => result.risk_level = "HIGH"
        /\ (RLeq(overall_risk, Rat(4, 5)) /\ RLess(Rat(1, 2), overall_risk))
              => result.risk_level = "MEDIUM"
        /\ (RLeq(overall_risk, Rat(1, 2)) /\ RLess(Rat(3, 10), overall_risk))
              => result.risk_level = "LOW"
        /\ RLeq(overall_risk, Rat(3, 10)) => result.risk_level = "MINIMAL"
        /\ overall_risk = Rat(9, 10) => result.risk_level = "HIGH"
        /\ overall_risk = Rat(6, 10) => result.risk_level = "MEDIUM"
        /\ overall_risk = Rat(4, 10) => result.risk_level = "LOW"
        /\ overall_risk = Rat(1, 10) => result.risk_level = "MINIMAL"
        /\ overall_risk = Rat(8, 10) => result.risk_level = "MEDIUM"
        /\ overall_risk = Rat(5, 10) => result.risk_level = "LOW"
        /\ overall_risk = Rat(3, 10) => result.risk_level = "MINIMAL"

C3_Witness ==
    /\ call = "risk_level"
    /\ overall_risk = Rat(8, 10)
    /\ result.risk_level = "MEDIUM"

(***************************************************************************)
(* C4: in every report of generate_report, is_suspicious is true exactly   *)
(* when overall_score > 0.5, hence exactly when the risk level is MEDIUM   *)
(* or HIGH.                                                                *)
(***************************************************************************)
C4_SuspiciousIffMediumOrHigh ==
    call = "generate_report" =>
        /\ result.is_suspicious <=> RLess(Rat(1, 2), result.overall_score)
        /\ result.is_suspicious <=> result.risk_level \in {"MEDIUM", "HIGH"}

C4_Witness ==
    /\ call = "generate_report"
    /\ result.is_suspicious
    /\ result.risk_level = "MEDIUM"
    /\ RLeq(result.overall_score, min_similarity_threshold)

(***************************************************************************)
(* C5: overall_score = 0.6 * database_similarity + 0.2 *                   *)
(* common_phrases_ratio + 0.2 * short_text_penalty, the penalty being 1    *)
(* when the candidate has fewer than 50 whitespace-separated words (49     *)
(* words: 1, 50 words: 0) and 0 otherwise.                                 *)
(***************************************************************************)
C5_OverallScoreFormula ==
    call = "generate_report" =>
        LET words == Len(split(text))
            penalty == IF words < 50 THEN One ELSE Zero
        IN  /\ result.overall_score =
                  RAdd(RAdd(RMul(Rat(6, 10), result.database_similarity),
                            RMul(Rat(2, 10), result.common_phrases_ratio)),
                       RMul(Rat(2, 10), penalty))
            /\ words = 49 => RLeq(Rat(2, 10), result.overall_score)
            /\ (words = 50 /\ result.common_phrases_ratio = Zero)
                  => result.overall_score = RMul(Rat(6, 10), result.database_similarity)

C5_Witness ==
    /\ call = "generate_report"
    /\ Len(split(text)) = 50
    /\ RLess(Zero, result.database_similarity)
    /\ result.overall_score = RMul(Rat(6, 10), result.database_similarity)

\* the rows a report compares the candidate with
corpus == select_submissions(abstract_submissions, event_id, exclude_submission_id)
\* max(sequence similarity to the title, sequence similarity to the text) of entry k
entry_similarity(k) ==
    RMax(calculate_similarity(text, corpus[k].title),
         calculate_similarity(text, corpus[k].abstract_text))
\* phrase overlap with the text of entry k
entry_overlap(k) == check_phrase_overlap(text, corpus[k].abstract_text, 5)

(***************************************************************************)
(* C6: text_similarity is the maximum over the corpus entries of           *)
(* max(similarity to the title, similarity to the text), phrase_overlap    *)
(* the maximum over the entries of the phrase overlap with the text (each  *)
(* maximum on its own, possibly from different entries; 0 for an empty     *)
(* corpus), and database_similarity = 0.7 * text_similarity + 0.3 *        *)
(* phrase_overlap.                                                         *)
(***************************************************************************)
C6_DatabaseSimilarity ==
    call = "generate_report" =>
        LET entries == 1..Len(corpus)
        IN  /\ \A k \in entries : RLeq(entry_similarity(k), result.text_similarity)
            /\ \A k \in entries : RLeq(entry_overlap(k), result.phrase_overlap)
            /\ IF entries = {}
               THEN result.text_similarity = Zero /\ result.phrase_overlap = Zero
               ELSE /\ \E k \in entries : result.text_similarity = entry_similarity(k)
                    /\ \E k \in entries : result.phrase_overlap = entry_overlap(k)
            /\ result.database_similarity =
                  RAdd(RMul(Rat(7, 10), result.text_similarity),
                       RMul(Rat(3, 10), result.phrase_overlap))

\* the two maxima come from different entries
C6_Witness ==
    /\ call = "generate_report"
    /\ Len(corpus) = 2
    /\ \E k \in 1..2 :
          /\ result.text_similarity = entry_similarity(k)
          /\ RLess(entry_similarity(3 - k), entry_similarity(k))
          /\ RLess(entry_overlap(k), entry_overlap(3 - k))
          /\ result.phrase_overlap = entry_overlap(3 - k)

(***************************************************************************)
(* C7: every score a scoring component returns lies in [0, 1] -- the       *)
(* sequence ratio, the phrase overlap for every window size >= 1 and the   *)
(* boilerplate ratio.                                                      *)
(***************************************************************************)
C7_ScoresInUnitInterval ==
    call \in {"calculate_similarity", "check_phrase_overlap", "check_common_phrases"} =>
        /\ result.n >= 0
        /\ result.d > 0
        /\ RLeq(Zero, result)
        /\ RLeq(result, One)

C7_Witness ==
    /\ call = "check_phrase_overlap"
    /\ phrase_length >= 1
    /\ RLess(Zero, result)
    /\ RLess(result, One)

C9_EmptyCandidateReturnsEmpty ==
    (call = "check_plagiarism" /\ text = <<>>) => result = Return(<<>>)

C9_Witness ==
    /\ call = "check_plagiarism"
    /\ text = <<>>
    /\ \E i \in 1..Len(source_documents) : tokenize(clean_text(source_documents[i])) # <<>>
    /\ result = Return(<<>>)

(***************************************************************************)
(* C10: for a non-empty candidate and a non-empty source sequence,         *)
(* check_plagiarism returns one result per source, in input order, result  *)
(* i carrying sources[i]; so the faculty views credit result j to the      *)
(* author of the j-th compared submission.                                 *)
(***************************************************************************)
C10_OneResultPerSource ==
    /\ (call = "check_plagiarism" /\ text # <<>> /\ source_documents # <<>>) =>
          /\ result.kind = "return"
          /\ Len(result.value) = Len(source_documents)
          /\ \A i \in 1..Len(source_documents) :
                result.value[i].source = source_documents[i]
    /\ (call = "submission_detail" /\ text # <<>> /\ Len(submissions) > 1) =>
          /\ result.kind = "return"
          /\ LET others == SelectSeq(submissions,
                                     LAMBDA sub : sub.id # result.value.submission_id)
             IN  /\ Len(result.value.plagiarism_report) = Len(others)
                 /\ \A j \in 1..Len(others) :
                       result.value.plagiarism_report[j].source_user = others[j].username

(***************************************************************************)
(* The comparison operations together: the scorers of PlagiarismChecker    *)
(* and check_plagiarism with its callers.                                  *)
(***************************************************************************)
InitCompare == InitSim \/ InitVec

NextCompare == NextSim \/ NextVec

SpecCompare == InitCompare /\ [][NextCompare]_vars

(***************************************************************************)
(* C11: no comparison operation raises for valid string inputs:            *)
(* calculate_similarity, check_phrase_overlap, check_common_phrases and,   *)
(* with at least one source, check_plagiarism always return a value; and   *)
(* comparing an empty text with a non-empty text yields similarity 0.0.    *)
(***************************************************************************)
C11_NoComparisonRaises ==
    /\ call \in {"calculate_similarity", "check_phrase_overlap", "check_common_phrases"}
          => result.d > 0
    /\ (call = "check_plagiarism" /\ source_documents # <<>>) => result.kind = "return"
    /\ (call = "calculate_similarity" /\ (text = <<>>) # (text2 = <<>>)) => result = Zero

(***************************************************************************)
(* C12: the sequence similarity of a text with itself is perfect:          *)
(* calculate_similarity(A, A) = 1.0 for every non-empty text A.            *)
(***************************************************************************)
C12_SelfSimilarityIsOne ==
    (call = "calculate_similarity" /\ text # <<>> /\ text2 = text) => result = One

\* a text long enough for autojunk, compared with itself
C12_Witness ==
    /\ call = "calculate_similarity"
    /\ text2 = text
    /\ Len(normalize_text(text)) >= AutojunkMinLen
    /\ popular(normalize_text(text)) # {}
    /\ result = One

(***************************************************************************)
(* C13: comparing a document against itself as the sole source yields      *)
(* perfect vector similarity: for every non-empty text A,                  *)
(* check_plagiarism(A, [A]) returns exactly one result, of similarity      *)
(* "100.00%", paired with that source.                                     *)
(***************************************************************************)
C13_SelfVectorSimilarityIsOne ==
    (call = "check_plagiarism" /\ text # <<>> /\ source_documents = <<text>>)
        => result = Return(<<[source |-> text, similarity |-> "100.00%"]>>)

(***************************************************************************)
(* C14: the phrase overlap is 0.0 whenever either text has fewer           *)
(* normalized words than the window size (default 5), its phrase set being *)
(* empty; in particular when either text is empty.                         *)
(***************************************************************************)
C14_ShortTextNoOverlap ==
    call = "check_phrase_overlap" =>
        LET words1 == Len(split(normalize_text(text)))
            words2 == Len(split(normalize_text(text2)))
        IN  /\ (words1 < phrase_length \/ words2 < phrase_length) => result = Zero
            /\ (text = <<>> \/ text2 = <<>>) => result = Zero

\* the default window, one text long enough and the other not empty but too short
C14_Witness ==
    /\ call = "check_phrase_overlap"
    /\ phrase_length = DefaultPhraseLength
    /\ Len(split(normalize_text(text))) >= phrase_length
    /\ Len(split(normalize_text(text2))) \in 1..(phrase_length - 1)
    /\ IsSubstring(normalize_text(text2), normalize_text(text))
    /\ result = Zero

(***************************************************************************)
(* C15: for every candidate with fewer than 50 words generate_report       *)
(* returns overall_score >= 0.2 whatever the corpus, an empty corpus       *)
(* included: the short-text penalty alone contributes 0.2.                 *)
(***************************************************************************)
C15_ShortTextAtLeastOneFifth ==
    (call = "generate_report" /\ Len(split(text)) < 50)
        => RLeq(Rat(2, 10), result.overall_score)

\* a short candidate with nothing to compare against and no boilerplate phrase
C15_Witness ==
    /\ call = "generate_report"
    /\ Len(split(text)) < 50
    /\ abstract_submissions = <<>>
    /\ result.common_phrases_ratio = Zero
    /\ result.overall_score = Rat(2, 10)

\* no stored row is in the corpus of the report
EmptyCorpus ==
    \A k \in 1..Len(abstract_submissions) :
        LET row == abstract_submissions[k]
        IN  \/ row.event_id # event_id
            \/ row.is_latest_version # 1
            \/ (exclude_submission_id # 0 /\ row.id = exclude_submission_id)

(***************************************************************************)
(* C16: with an empty corpus generate_report reports database_similarity,  *)
(* text_similarity and phrase_overlap 0 and no most-similar submission,    *)
(* while common_phrases_ratio and the short-text penalty are still         *)
(* computed on the candidate alone: overall_score = 0.2 *                  *)
(* common_phrases_ratio + 0.2 * short_text_penalty.                        *)
(***************************************************************************)
C16_EmptyCorpusReport ==
    (call = "generate_report" /\ EmptyCorpus) =>
        /\ result.database_similarity = Zero
        /\ result.text_similarity = Zero
        /\ result.phrase_overlap = Zero
        /\ result.similar_submission = None
        /\ result.common_phrases_ratio = check_common_phrases(text)
        /\ result.overall_score =
              RAdd(RMul(Rat(2, 10), result.common_phrases_ratio),
                   RMul(Rat(2, 10), IF Len(split(text)) < 50 THEN One ELSE Zero))

\* rows are stored but none is in the corpus, and the candidate holds boilerplate
C16_Witness ==
    /\ call = "generate_report"
    /\ EmptyCorpus
    /\ \E k \in 1..Len(abstract_submissions) :
          /\ abstract_submissions[k].event_id = event_id
          /\ abstract_submissions[k].is_latest_version = 0
    /\ RLess(Zero, result.common_phrases_ratio)
    /\ result.overall_score = RAdd(Rat(2, 10), RMul(Rat(2, 10), result.common_phrases_ratio))

\* the entries _generate_recommendations gives a risk tier
tier_recommendations(level) ==
    CASE level = "HIGH" ->
            <<"URGENT: Manual review required - high similarity detected",
              "Consider rejecting or requesting major revision">>
      [] level = "MEDIUM" ->
            <<"Manual review recommended - moderate similarity detected",
              "Request clarification or minor revision">>
      [] level = "LOW" -> <<"Low risk detected - brief review suggested">>
      [] level = "MINIMAL" -> <<"Minimal plagiarism risk - safe to approve">>

(***************************************************************************)
(* C17: the recommendations are fixed by the risk tier and agree with      *)
(* risk_level (HIGH: urgent review, consider rejecting; MEDIUM: manual     *)
(* review, request revision; LOW: brief review; MINIMAL: safe to approve); *)
(* exactly when a most-similar match was found, one further entry citing   *)
(* that match is appended as the last element.                             *)
(***************************************************************************)
C17_RecommendationsFollowTier ==
    call = "generate_report" =>
        LET tier == tier_recommendations(result.risk_level)
            recs == result.recommendations
            match == result.similar_submission
        IN  /\ Len(recs) = Len(tier) + (IF match # None THEN 1 ELSE 0)
            /\ SubSeq(recs, 1, Len(tier)) = tier
            /\ match # None =>
                  recs[Len(recs)] =
                      <<"Similar content found in submission ID: ", match[1].id>>

\* a score on the boundary of a tier, with a match to cite
C17_Witness ==
    /\ call = "generate_report"
    /\ result.overall_score = Rat(8, 10)
    /\ result.risk_level = "MEDIUM"
    /\ result.similar_submission # None
    /\ Len(result.recommendations) = 3

(***************************************************************************)
(* The overall similarity of a peer comparison: student.assignment_        *)
(* submission and the per-submission report of the faculty views.  Here a  *)
(* similarity text f"{score * 100:.2f}%" is written as its number of       *)
(* hundredths of a percent, 0..10000.                                      *)
(***************************************************************************)
\* hundredths a cosine strictly between 0 and 1 is rendered as
BetweenHundredths == {0, 1, 2899, 2900, 3361, 5800, 9999, 10000}

\* the hundredths a similarity of check_plagiarism may stand for
renderings(similarity) ==
    IF similarity = "0.00%" THEN {0}
    ELSE IF similarity = "100.00%" THEN {10000}
    ELSE BetweenHundredths

\* the results of check_plagiarism with their similarities as hundredths
rendered_results(results) ==
    {[i \in 1..Len(results) |-> [source |-> results[i].source, similarity |-> hs[i]]] :
        hs \in {f \in [1..Len(results) -> BetweenHundredths \cup {0, 10000}] :
                  \A i \in 1..Len(results) : f[i] \in renderings(results[i].similarity)}}

\* scores = [float(res['similarity'].strip('%')) / 100 for res in plagiarism_results]
scores_of(plagiarism_results) ==
    [i \in 1..Len(plagiarism_results) |-> Rat(plagiarism_results[i].similarity, 10000)]

\* the overall similarity taken from the first result
overall_similarity_first(plagiarism_results) ==
    IF plagiarism_results = <<>> THEN Zero ELSE scores_of(plagiarism_results)[1]

\* overall_similarity = 0; if plagiarism_results: ... overall_similarity = max(scores)
overall_similarity(plagiarism_results) ==
    IF plagiarism_results = <<>> THEN Zero
    ELSE LET scores == scores_of(plagiarism_results)
         IN  CHOOSE m \in Range(scores) : \A x \in Range(scores) : RLeq(x, m)

\* the whole percents p for which the double p / 100 * 100 is below p
FloatShort == {29, 57, 58}

\* int(overall_similarity * 100) in double arithmetic
whole_percent(score) ==
    LET hundredths == (score.n * 10000) \div score.d
        percent == hundredths \div 100
    IN  IF hundredths % 100 = 0 /\ percent \in FloatShort THEN percent - 1 ELSE percent

\* values of current_app.config['PLAGIARISM_THRESHOLD']
Thresholds == {Zero, Rat(1, 2)}

InitPeer ==
    /\ text \in VecDocs
    /\ source_documents \in SeqsUpTo(VecDocs, MaxSources)
    /\ submissions = <<>>
    /\ NoScorerInput /\ NoReportInput /\ NotCalled

\* student.assignment_submission, from the query of the other submissions to
\* the decision to accept
AssignmentSubmission ==
    /\ call = "none"
    /\ call' = "assignment_submission"
    /\ LET returned == check_plagiarism(text, source_documents)
       IN  IF returned.kind = "raise" THEN result' = returned
           ELSE \E plagiarism_results \in rendered_results(returned.value),
                   threshold \in Thresholds :
                   result' = Return(
                       [plagiarism_results |-> plagiarism_results,
                        overall_similarity |-> overall_similarity(plagiarism_results),
                        accepted |-> ~RLess(threshold,
                                            overall_similarity(plagiarism_results))])
    /\ UNCHANGED <<scorer_vars, other_vars, passes>>

\* the report the faculty views build for one submission (text) against the
\* others of the assignment (source_documents)
SubmissionReport ==
    /\ call = "none"
    /\ call' = "submission_report"
    /\ LET returned == IF source_documents # <<>>
                       THEN check_plagiarism(text, source_documents)
                       ELSE Return(<<>>)
       IN  IF returned.kind = "raise" THEN result' = returned
           ELSE \E plagiarism_results \in rendered_results(returned.value) :
                   result' = Return(
                       [plagiarism_results |-> plagiarism_results,
                        overall_similarity |->
                            whole_percent(overall_similarity(plagiarism_results))])
    /\ UNCHANGED <<scorer_vars, other_vars, passes>>

NextPeer == AssignmentSubmission \/ SubmissionReport

SpecPeer == InitPeer /\ [][NextPeer]_vars

\* the largest similarity among the matches of a peer comparison, in hundredths
\* of a percent (0 when there is none)
MaxHundredths ==
    LET hs == {result.value.plagiarism_results[i].similarity :
                  i \in 1..Len(result.value.plagiarism_results)}
    IN  IF hs = {} THEN 0 ELSE CHOOSE m \in hs : \A h \in hs : h <= m

PeerComparisonReturned ==
    call \in {"assignment_submission", "submission_report"} /\ result.kind = "return"

CallTexts == {<<"a", " ", "b", " ", "c">>, Conclusion5}
CallSources == SeqsUpTo({<<"a", "b">>, <<"c", "d">>}, 1)

\* the arguments of the last call
call_inputs ==
    <<text, text2, phrase_length, source_documents, event_id, exclude_submission_id>>

InitCalls ==
    /\ abstract_submissions \in Tables(1)
    /\ text = <<>>
    /\ overall_risk = Zero /\ event_id = 0 /\ exclude_submission_id = 0
    /\ NoScorerInput /\ NoVectorInput /\ NotCalled

\* the call named name returns r on the instance; the first call is remembered
Returns(name, r) ==
    /\ passes < MaxCalls
    /\ passes' = passes + 1
    /\ call' = name
    /\ result' = r
    /\ checker' = checker_after_call(checker)
    /\ earlier' = IF earlier = None
                  THEN Some([call |-> name, inputs |-> call_inputs', result |-> r])
                  ELSE earlier
    /\ UNCHANGED <<overall_risk, abstract_submissions, submissions, workers,
                   event_requirements, batch>>

CallCalculateSimilarity ==
    \E a \in CallTexts, b \in CallTexts :
        /\ text' = a /\ text2' = b /\ phrase_length' = 0
        /\ source_documents' = <<>> /\ event_id' = 0 /\ exclude_submission_id' = 0
        /\ Returns("calculate_similarity", calculate_similarity(a, b))

CallCheckPhraseOverlap ==
    \E a \in CallTexts, b \in CallTexts :
        /\ text' = a /\ text2' = b /\ phrase_length' = DefaultPhraseLength
        /\ source_documents' = <<>> /\ event_id' = 0 /\ exclude_submission_id' = 0
        /\ Returns("check_phrase_overlap", check_phrase_overlap(a, b, DefaultPhraseLength))

CallCheckCommonPhrases ==
    \E a \in CallTexts :
        /\ text' = a /\ text2' = <<>> /\ phrase_length' = 0
        /\ source_documents' = <<>> /\ event_id' = 0 /\ exclude_submission_id' = 0
        /\ Returns("check_common_phrases", check_common_phrases(a))

CallCheckAgainstDatabase ==
    \E a \in CallTexts, exclude \in 0..1 :
        /\ text' = a /\ text2' = <<>> /\ phrase_length' = 0
        /\ source_documents' = <<>> /\ event_id' = 1 /\ exclude_submission_id' = exclude
        /\ Returns("check_against_database",
                   Bind(select_submissions(abstract_submissions, 1, exclude),
                        LAMBDA selected : score_against(checker, a, selected)))

CallGenerateReport ==
    \E a \in CallTexts, exclude \in 0..1 :
        /\ text' = a /\ text2' = <<>> /\ phrase_length' = 0
        /\ source_documents' = <<>> /\ event_id' = 1 /\ exclude_submission_id' = exclude
        /\ Returns("generate_report",
                   Bind(select_submissions(abstract_submissions, 1, exclude),
                        LAMBDA selected :
                   Bind(score_against(checker, a, selected),
                        LAMBDA db_check : report_from(a, db_check))))

CallCheckPlagiarism ==
    \E a \in CallTexts, sources \in CallSources :
        /\ text' = a /\ text2' = <<>> /\ phrase_length' = 0
        /\ source_documents' = sources /\ event_id' = 0 /\ exclude_submission_id' = 0
        /\ Returns("check_plagiarism", check_plagiarism(a, sources))

NextCalls ==
    \/ CallCalculateSimilarity
    \/ CallCheckPhraseOverlap
    \/ CallCheckCommonPhrases
    \/ CallCheckAgainstDatabase
    \/ CallGenerateReport
    \/ CallCheckPlagiarism

SpecCalls == InitCalls /\ [][NextCalls]_vars

StoredKinds == {
    [event_id |-> 1, is_latest_version |-> 1, title |-> <<"a", " ", "b">>,
     abstract_text |-> Abstract5],
    [event_id |-> 1, is_latest_version |-> 1, title |-> Abstract6,
     abstract_text |-> Other5] }

\* two stored abstracts, not yet checked
StoredTables ==
    {[i \in 1..2 |->
        [id |-> i, event_id |-> kinds[i].event_id,
         is_latest_version |-> kinds[i].is_latest_version,
         title |-> kinds[i].title, abstract_text |-> kinds[i].abstract_text,
         plagiarism_score |-> Zero, plagiarism_status |-> "pending"]] :
     kinds \in [1..2 -> StoredKinds]}

Workers == 1..MaxWorkers

Idle ==
    [pc |-> "idle", submission_id |-> 0, text |-> <<>>, event_id |-> 0,
     rows |-> <<>>, sources |-> <<>>, report |-> None]

InitConcurrent ==
    /\ abstract_submissions \in StoredTables
    /\ text = <<>>
    /\ overall_risk = Zero /\ event_id = 0 /\ exclude_submission_id = 0
    /\ NoScorerInput /\ NoVectorInput
    /\ call = "none" /\ passes = 0 /\ result = None
    /\ checker = PlagiarismChecker /\ earlier = None
    /\ workers = [w \in Workers |-> Idle]
    /\ event_requirements = <<>> /\ batch = None

request_vars ==
    <<text, text2, phrase_length, source_documents, overall_risk, event_id,
      exclude_submission_id, submissions, call, passes, result, earlier,
      event_requirements, batch>>

\* UPDATE abstract_submissions SET plagiarism_score = ?, plagiarism_status = ?
\* WHERE id = ?
update_submission_plagiarism_score(table, submission_id, plagiarism_score, status) ==
    [i \in 1..Len(table) |->
        IF table[i].id = submission_id
        THEN [table[i] EXCEPT !.plagiarism_score = plagiarism_score,
                              !.plagiarism_status = status]
        ELSE table[i]]

\* a request picks the stored abstract it checks
StartAbstractCheck(w) ==
    /\ workers[w].pc = "idle"
    /\ \E k \in 1..Len(abstract_submissions) :
          workers' = [workers EXCEPT ![w] =
              [Idle EXCEPT !.pc = "query",
                           !.submission_id = abstract_submissions[k].id,
                           !.text = abstract_submissions[k].abstract_text,
                           !.event_id = abstract_submissions[k].event_id]]
    /\ UNCHANGED <<abstract_submissions, checker, request_vars>>

\* check_against_database: conn.execute(query, params).fetchall()
FetchSubmissions(w) ==
    /\ workers[w].pc = "query"
    /\ workers' = [workers EXCEPT ![w] =
          [@ EXCEPT !.pc = "score",
                    !.rows = select_submissions(abstract_submissions,
                                                workers[w].event_id,
                                                workers[w].submission_id)]]
    /\ UNCHANGED <<abstract_submissions, checker, request_vars>>

\* the rest of generate_report, on the fetched rows
ScoreAndReport(w) ==
    /\ workers[w].pc = "score"
    /\ workers' = [workers EXCEPT ![w] =
          [@ EXCEPT !.pc = "update",
                    !.report = Some(
                        Bind(score_against(checker, workers[w].text, workers[w].rows),
                             LAMBDA db_check : report_from(workers[w].text, db_check)))]]
    /\ checker' = checker_after_call(checker)
    /\ UNCHANGED <<abstract_submissions, request_vars>>

\* update_submission_plagiarism_score with the outcome of the report
UpdateScore(w) ==
    /\ workers[w].pc = "update"
    /\ abstract_submissions' =
          update_submission_plagiarism_score(
              abstract_submissions, workers[w].submission_id,
              workers[w].report[1].overall_score,
              IF workers[w].report[1].is_suspicious THEN "flagged" ELSE "clean")
    /\ workers' = [workers EXCEPT ![w] = [@ EXCEPT !.pc = "done"]]
    /\ UNCHANGED <<checker, request_vars>>

\* a request picks a text and the sources to compare it with
StartVectorCheck(w) ==
    /\ workers[w].pc = "idle"
    /\ \E sources \in CallSources \ {<<>>} :
          workers' = [workers EXCEPT ![w] =
              [Idle EXCEPT !.pc = "compare", !.text = <<"a", "b">>, !.sources = sources]]
    /\ UNCHANGED <<abstract_submissions, checker, request_vars>>

\* check_plagiarism on the arguments of the request
CompareWithSources(w) ==
    /\ workers[w].pc = "compare"
    /\ workers' = [workers EXCEPT ![w] =
          [@ EXCEPT !.pc = "done",
                    !.report = Some(check_plagiarism(workers[w].text, workers[w].sources))]]
    /\ UNCHANGED <<abstract_submissions, checker, request_vars>>

NextConcurrent ==
    \E w \in Workers :
        \/ StartAbstractCheck(w)
        \/ FetchSubmissions(w)
        \/ ScoreAndReport(w)
        \/ UpdateScore(w)
        \/ StartVectorCheck(w)
        \/ CompareWithSources(w)

SpecConcurrent == InitConcurrent /\ [][NextConcurrent]_vars

(***************************************************************************)
(* C20: detection calls share no mutable state: under any interleaving of  *)
(* concurrent calls, plagiarism-score updates of other submissions         *)
(* included, each call of generate_report or check_plagiarism returns the  *)
(* report it returns when run alone on the same candidate and corpus, and  *)
(* the fields of the PlagiarismChecker are never written.                  *)
(***************************************************************************)
C20_ReportAsIfAlone ==
    /\ checker = PlagiarismChecker
    /\ \A w \in DOMAIN workers :
          workers[w].report # None =>
              workers[w].report[1] =
                  IF workers[w].sources # <<>>
                  THEN check_plagiarism(workers[w].text, workers[w].sources)
                  ELSE generate_report(workers[w].text, abstract_submissions,
                                       workers[w].event_id, workers[w].submission_id)

\* a report made from rows fetched before another request flagged one of them
C20_Witness ==
    \E w \in DOMAIN workers, v \in DOMAIN workers :
        /\ w # v
        /\ workers[w].pc \in {"update", "done"}
        /\ workers[w].sources = <<>>
        /\ workers[w].report[1].similar_submission # None
        /\ workers[w].report[1].similar_submission[1].id = workers[v].submission_id
        /\ workers[v].pc = "done"
        /\ \E k \in 1..Len(abstract_submissions) :
              /\ abstract_submissions[k].id = workers[v].submission_id
              /\ abstract_submissions[k].plagiarism_status = "flagged"

\* the output of the first pass of a normalizer over the input text
FirstPass == passes = 1 /\ call \in {"normalize_text", "clean_text"}

(***************************************************************************)
(* C21: the normalizer removes digit characters entirely: for every input  *)
(* the output holds no digit, on the phrase/sequence path (normalize_text) *)
(* and on the vector path (clean_text), and the digits are deleted, not    *)
(* replaced by a space: the output is that of the input without its        *)
(* digits.                                                                 *)
(***************************************************************************)
C21_NoDigitsInOutput ==
    FirstPass =>
        /\ \A i \in 1..Len(result) : ~IsDigit(result[i])
        /\ call = "normalize_text" => result = normalize_text(remove_digits(text))
        /\ call = "clean_text" => result = clean_text(remove_digits(text))

(***************************************************************************)
(* C22: for every input the output of the normalizer is single-spaced and  *)
(* trimmed: no two adjacent whitespace characters, no leading or trailing  *)
(* whitespace, also when punctuation stands next to spaces in the input;   *)
(* the empty input gives the empty output.                                 *)
(***************************************************************************)
C22_SingleSpacedAndTrimmed ==
    FirstPass =>
        /\ \A i \in 1..(Len(result) - 1) : ~(IsSpace(result[i]) /\ IsSpace(result[i + 1]))
        /\ result # <<>> => ~IsSpace(result[1]) /\ ~IsSpace(result[Len(result)])
        /\ text = <<>> => result = <<>>

\* the windows of n consecutive words of a normalized text, each a sequence of words
windows(t, n) ==
    LET words == split(normalize_text(t))
    IN  {SubSeq(words, i, i + n - 1) : i \in 1..(Len(words) - n + 1)}

\* the words of the first text occur, in order and side by side, in the second
OccursIn(t, u) ==
    LET words == split(normalize_text(t))
        others == split(normalize_text(u))
    IN  \E k \in 0..(Len(others) - Len(words)) :
            SubSeq(others, k + 1, k + Len(words)) = words

(***************************************************************************)
(* C23: when both phrase sets are non-empty the phrase overlap is          *)
(* |A \cap B| / min(|A|, |B|), A and B being the sets of distinct windows  *)
(* of consecutive words (5 by default, sliding by one word) of the two     *)
(* normalized texts; so a text of at least a window's length whose words   *)
(* occur side by side in the other text scores exactly 1.0, and swapping   *)
(* the two arguments leaves the score unchanged.                           *)
(***************************************************************************)
C23_OverlapOverSmallerSet ==
    call = "check_phrase_overlap" =>
        LET A == windows(text, phrase_length)
            B == windows(text2, phrase_length)
        IN  /\ (A # {} /\ B # {}) =>
                   result = Rat(Cardinality(A \cap B), Min(Cardinality(A), Cardinality(B)))
            /\ (A # {} /\ OccursIn(text, text2)) => result = One
            /\ (B # {} /\ OccursIn(text2, text)) => result = One
            /\ result = check_phrase_overlap(text2, text, phrase_length)

\* two texts of six words sharing one of their two windows of five words
C23_Witness ==
    /\ call = "check_phrase_overlap"
    /\ phrase_length = DefaultPhraseLength
    /\ Cardinality(windows(text, phrase_length)) = 2
    /\ Cardinality(windows(text2, phrase_length)) = 2
    /\ result = Rat(1, 2)

\* a text with every whitespace character widened to a tab followed by itself
widen(t) ==
    Bind([i \in 1..Len(t) |-> Cardinality({k \in 1..(i - 1) : IsSpace(t[k])})],
         LAMBDA before :
    [j \in 1..(Len(t) + Cardinality({k \in 1..Len(t) : IsSpace(t[k])})) |->
        LET i == CHOOSE i \in 1..Len(t) :
                     \/ i + before[i] = j
                     \/ IsSpace(t[i]) /\ i + before[i] + 1 = j
        IN  IF IsSpace(t[i]) /\ i + before[i] = j THEN "\t" ELSE t[i]])

\* the places of a normalized text where a boilerplate phrase starts
occurrences(phrase, s) ==
    {at \in 1..(Len(s) - Len(phrase) + 1) : SubSeq(s, at, at + Len(phrase) - 1) = phrase}

(***************************************************************************)
(* C25: common_phrases_ratio is the number of the 10 fixed boilerplate     *)
(* phrases occurring in the normalized candidate, divided by 10: a phrase  *)
(* counts once however often it occurs, letter case and the kind and       *)
(* amount of whitespace between the words do not matter, and the result is *)
(* one of 0, 0.1, ..., 1.0.                                                *)
(***************************************************************************)
C25_CommonPhrasesRatio ==
    call = "check_common_phrases" =>
        LET found == {k \in 1..Len(common_phrases) :
                         occurrences(common_phrases[k], normalize_text(text)) # {}}
        IN  /\ Len(common_phrases) = 10
            /\ result = Rat(Cardinality(found), 10)
            /\ result \in {Rat(k, 10) : k \in 0..10}
            /\ result = check_common_phrases(lower(text))
            /\ result = check_common_phrases(widen(text))

\* a phrase written twice, in two letter cases and with two kinds of whitespace
C25_Witness ==
    /\ call = "check_common_phrases"
    /\ Cardinality(occurrences(common_phrases[5], normalize_text(text))) = 2
    /\ text # lower(text)
    /\ \E i \in 1..Len(text) : text[i] = "\t"
    /\ result = Rat(1, 10)

(***************************************************************************)
(* C24: the most similar submission of a report is a corpus entry whose    *)
(* max(title similarity, text similarity) equals the reported              *)
(* text_similarity; of several entries reaching that maximum the earliest  *)
(* in corpus order is kept; and none is reported exactly when              *)
(* text_similarity is 0, the corpus being empty or every entry scoring 0.  *)
(***************************************************************************)
C24_MostSimilarIsEarliestMaximum ==
    call = "generate_report" =>
        LET entries == 1..Len(corpus)
        IN  /\ result.similar_submission = None <=> result.text_similarity = Zero
            /\ result.similar_submission = None <=>
                  \A k \in entries : entry_similarity(k) = Zero
            /\ result.similar_submission # None =>
                  \E k \in entries :
                      /\ result.similar_submission = Some(corpus[k])
                      /\ entry_similarity(k) = result.text_similarity
                      /\ \A j \in 1..(k - 1) :
                            RLess(entry_similarity(j), result.text_similarity)

\* two entries reach the same positive maximum and the first is reported
C24_Witness ==
    /\ call = "generate_report"
    /\ Len(corpus) = 2
    /\ entry_similarity(1) = entry_similarity(2)
    /\ RLess(Zero, entry_similarity(1))
    /\ result.similar_submission = Some(corpus[1])

(***************************************************************************)
(* C26: for every candidate and corpus overall_score lies in [0.0, 1.0]:   *)
(* nothing clamps it, but the weights 0.6 * (0.7 + 0.3) + 0.2 + 0.2 and    *)
(* the component scores, each in [0, 1], keep it from being negative or    *)
(* exceeding 1.0.                                                          *)
(***************************************************************************)
C26_OverallScoreInUnitInterval ==
    call = "generate_report" =>
        /\ RLeq(Zero, result.overall_score)
        /\ RLeq(result.overall_score, One)
        /\ RLeq(Zero, result.database_similarity)
        /\ RLeq(result.database_similarity, One)

\* every component at its largest: a short candidate holding all ten phrases
\* that copies a corpus entry
C26_Witness ==
    /\ call = "generate_report"
    /\ result.text_similarity = One
    /\ result.phrase_overlap = One
    /\ result.common_phrases_ratio = One
    /\ Len(split(text)) < ShortTextWords
    /\ result.overall_score = One

(***************************************************************************)
(* C27: a candidate of 50 or more words holding none of the boilerplate    *)
(* phrases is never classified HIGH: its overall_score is at most 0.6,     *)
(* even when it copies a corpus entry, so its risk level is at most        *)
(* MEDIUM; HIGH needs the short-text penalty or boilerplate phrases on top *)
(* of a database similarity above 2/3.                                     *)
(***************************************************************************)
C27_LongPlainTextNeverHigh ==
    call = "generate_report" =>
        LET long == Len(split(text)) >= 50
            plain == check_common_phrases(text) = Zero
        IN  /\ (long /\ plain) =>
                   /\ RLeq(result.overall_score, Rat(6, 10))
                   /\ result.risk_level \in {"MINIMAL", "LOW", "MEDIUM"}
            /\ result.risk_level = "HIGH" =>
                   /\ ~long \/ ~plain
                   /\ RLess(Rat(2, 3), result.database_similarity)

\* a candidate of 50 words without boilerplate that copies a corpus entry
C27_Witness ==
    /\ call = "generate_report"
    /\ Len(split(text)) = 50
    /\ check_common_phrases(text) = Zero
    /\ result.text_similarity = One
    /\ result.phrase_overlap = One
    /\ result.overall_score = Rat(6, 10)
    /\ result.risk_level = "MEDIUM"

(***************************************************************************)
(* Reports on a table that changes between them: a draft is saved, or the  *)
(* query, which has no ORDER BY, returns the rows in another order.        *)
(***************************************************************************)
CorpusCandidates == {<<>>, Abstract5, Abstract6, <<"a", " ", "b", " ", "c">>, Conclusion5}

\* the rows submit_abstract inserts: is_latest_version is 1
InsertedKinds == {kind \in RowKinds : kind.is_latest_version = 1 /\ kind.abstract_text # Words50}

InitCorpus ==
    /\ text \in CorpusCandidates
    /\ abstract_submissions \in Tables(1)
    /\ overall_risk = Zero /\ event_id = 0 /\ exclude_submission_id = 0
    /\ NoScorerInput /\ NoVectorInput /\ NotCalled

\* the first report on the candidate
FirstReport ==
    /\ call = "none"
    /\ \E ev \in Events, exclude \in 0..Len(abstract_submissions) :
          /\ event_id' = ev
          /\ exclude_submission_id' = exclude
          /\ result' = generate_report(text, abstract_submissions, ev, exclude)
    /\ call' = "generate_report"
    /\ UNCHANGED <<scorer_vars, source_documents, overall_risk, abstract_submissions,
                   submissions, passes, checker, earlier, workers, event_requirements,
                   batch>>

\* submit_abstract storing a first version: one more row, the latest of its team
InsertSubmission ==
    /\ call \in {"generate_report", "generate_report_again"}
    /\ Len(abstract_submissions) < MaxCorpus
    /\ \E kind \in InsertedKinds :
          abstract_submissions' =
              Append(abstract_submissions,
                     [id |-> Len(abstract_submissions) + 1, event_id |-> kind.event_id,
                      is_latest_version |-> 1, title |-> kind.title,
                      abstract_text |-> kind.abstract_text])
    /\ call' = "submit_abstract"
    /\ UNCHANGED <<scorer_vars, source_documents, overall_risk, event_id,
                   exclude_submission_id, submissions, passes, result, checker, earlier,
                   workers, event_requirements, batch>>

\* the rows come back from the table in another order: two neighbours swapped
Reorder ==
    /\ call \in {"generate_report", "generate_report_again"}
    /\ \E j \in 1..(Len(abstract_submissions) - 1) :
          abstract_submissions' =
              [abstract_submissions EXCEPT ![j] = abstract_submissions[j + 1],
                                           ![j + 1] = abstract_submissions[j]]
    /\ call' = "reorder"
    /\ UNCHANGED <<scorer_vars, source_documents, overall_risk, event_id,
                   exclude_submission_id, submissions, passes, result, checker, earlier,
                   workers, event_requirements, batch>>

\* the report on the same candidate, event and excluded id after the change;
\* the report before it and the change are kept for comparison
ReportAgain ==
    /\ call \in {"submit_abstract", "reorder"}
    /\ earlier' = Some([report |-> result, change |-> call])
    /\ result' = generate_report(text, abstract_submissions, event_id, exclude_submission_id)
    /\ call' = "generate_report_again"
    /\ UNCHANGED <<scorer_vars, source_documents, overall_risk, abstract_submissions,
                   event_id, exclude_submission_id, submissions, passes, checker, workers,
                   event_requirements, batch>>

NextCorpus == FirstReport \/ InsertSubmission \/ Reorder \/ ReportAgain

SpecCorpus == InitCorpus /\ [][NextCorpus]_vars

\* the risk levels in rising order
level_rank(level) ==
    IF level = "MINIMAL" THEN 0 ELSE IF level = "LOW" THEN 1
    ELSE IF level = "MEDIUM" THEN 2 ELSE 3

(***************************************************************************)
(* C28: for a fixed candidate the risk assessment is monotone in the       *)
(* corpus and independent of its order: adding an entry never decreases    *)
(* text_similarity, phrase_overlap, database_similarity or overall_score,  *)
(* so the risk level never drops, and permuting the entries leaves these   *)
(* scores and the risk level unchanged.                                    *)
(***************************************************************************)
C28_MonotoneAndOrderIndependent ==
    call = "generate_report_again" =>
        LET before == earlier[1].report
        IN  /\ earlier[1].change = "submit_abstract" =>
                  /\ RLeq(before.text_similarity, result.text_similarity)
                  /\ RLeq(before.phrase_overlap, result.phrase_overlap)
                  /\ RLeq(before.database_similarity, result.database_similarity)
                  /\ RLeq(before.overall_score, result.overall_score)
                  /\ level_rank(before.risk_level) <= level_rank(result.risk_level)
            /\ earlier[1].change = "reorder" =>
                  /\ before.text_similarity = result.text_similarity
                  /\ before.phrase_overlap = result.phrase_overlap
                  /\ before.database_similarity = result.database_similarity
                  /\ before.overall_score = result.overall_score
                  /\ before.risk_level = result.risk_level

\* the rows of the corpus came back in another order, with different scores for
\* the candidate, and the report has the same scores as before
C28_Witness ==
    /\ call = "generate_report_again"
    /\ earlier[1].change = "reorder"
    /\ Len(corpus) = 2
    /\ RLess(entry_similarity(1), entry_similarity(2))
    /\ RLess(entry_overlap(2), entry_overlap(1))
    /\ earlier[1].report.overall_score = result.overall_score
    /\ RLess(Zero, result.phrase_overlap)

(***************************************************************************)
(* abstracts.finalize_submission: POST /finalize/<submission_id> by the    *)
(* logged-in user.  The tables teams and notifications it also writes are  *)
(* not part of the model, and no statement fails (the except branch rolls  *)
(* every change back).                                                     *)
(***************************************************************************)
DefaultThresholdPercent == 80

\* round(x, 1) of a non-negative number, in tenths: the nearest, ties to even
round_tenths(x) ==
    Bind(RMul(x, Rat(10, 1)), LAMBDA scaled :
    Bind(scaled.n \div scaled.d, LAMBDA whole :
    Bind(scaled.n - whole * scaled.d, LAMBDA rest :
        IF 2 * rest > scaled.d THEN whole + 1
        ELSE IF 2 * rest < scaled.d THEN whole
        ELSE IF whole % 2 = 0 THEN whole ELSE whole + 1)))

\* plagiarism_percent = round(plagiarism_report['overall_score'] * 100, 1)
plagiarism_percent(overall_score) ==
    Rat(round_tenths(RMul(overall_score, Rat(100, 1))), 10)

\* the value of event_requirements.plagiarism_threshold: no row or NULL, a
\* number, or a text float() rejects
NoThreshold == [kind |-> "null", value |-> Zero]
TextThreshold == [kind |-> "text", value |-> Zero]
RealThreshold(percent) == [kind |-> "real", value |-> percent]

\* threshold_percent: 80.0 unless the event has a number configured
threshold_percent(event_req) ==
    IF event_req.kind = "real" THEN event_req.value
    ELSE Rat(DefaultThresholdPercent, 1)

\* the comparison written >
blocks_finalization_strict(percent, threshold) == RLess(threshold, percent)

\* if plagiarism_percent >= threshold_percent
blocks_finalization(percent, threshold) == RLeq(threshold, percent)

\* UPDATE abstract_submissions SET plagiarism_score = ?, plagiarism_status =
\* 'flagged' WHERE id = ?
flag_draft(table, submission_id, overall_score) ==
    [i \in 1..Len(table) |->
        IF table[i].id = submission_id
        THEN [table[i] EXCEPT !.plagiarism_score = overall_score,
                              !.plagiarism_status = "flagged"]
        ELSE table[i]]

\* UPDATE abstract_submissions SET status = 'submitted', plagiarism_score = ?,
\* plagiarism_status = ? WHERE id = ?
mark_submitted(table, submission_id, overall_score, plagiarism_status) ==
    [i \in 1..Len(table) |->
        IF table[i].id = submission_id
        THEN [table[i] EXCEPT !.status = "submitted",
                              !.plagiarism_score = overall_score,
                              !.plagiarism_status = plagiarism_status]
        ELSE table[i]]

\* the request as the handler answers it
Answer(outcome, submission_id, current_user, percent, threshold) ==
    [outcome |-> outcome, submission_id |-> submission_id, current_user |-> current_user,
     plagiarism_percent |-> percent, threshold_percent |-> threshold]

\* finalize_submission(submission_id) for current_user: the table afterwards and
\* the answer
finalize_submission(table, requirements, submission_id, current_user) ==
    Bind(SelectSeq(table, LAMBDA row : /\ row.id = submission_id
                                       /\ row.user_id = current_user
                                       /\ row.status = "draft"), LAMBDA found :
    IF found = <<>>
    THEN [table |-> table,
          answer |-> Answer("not_found", submission_id, current_user, Zero, Zero)]
    ELSE
    Bind(found[1], LAMBDA submission :
    Bind(generate_report(submission.abstract_text, table, submission.event_id,
                         submission_id), LAMBDA plagiarism_report :
    Bind(plagiarism_percent(plagiarism_report.overall_score), LAMBDA percent :
    Bind(threshold_percent(requirements[submission.event_id]), LAMBDA threshold :
    IF blocks_finalization(percent, threshold)
    THEN [table |-> flag_draft(table, submission_id, plagiarism_report.overall_score),
          answer |-> Answer("revise", submission_id, current_user, percent, threshold)]
    ELSE [table |-> mark_submitted(table, submission_id, plagiarism_report.overall_score,
                        IF plagiarism_report.is_suspicious THEN "flagged" ELSE "clean"),
          answer |-> Answer("submitted", submission_id, current_user, percent,
                            threshold)])))))

Users == 1..2

DraftKinds == {
    [title |-> <<"a", " ", "b">>, abstract_text |-> Abstract5],
    [title |-> <<"a", " ", "b">>, abstract_text |-> Abstract6],
    [title |-> <<"a", " ", "b">>,
     abstract_text |-> join(Words(<<"a", "b", "c", "d", "e", "f", "g">>))],
    [title |-> <<"B">>, abstract_text |-> Conclusion5] }

\* two stored abstracts, one of each user, a draft or already submitted
DraftTables ==
    {[i \in 1..2 |->
        [id |-> i, event_id |-> events[i], is_latest_version |-> 1, user_id |-> i,
         title |-> kinds[i].title, abstract_text |-> kinds[i].abstract_text,
         status |-> statuses[i], plagiarism_score |-> Zero,
         plagiarism_status |-> "pending"]] :
     kinds \in [1..2 -> DraftKinds], events \in [1..2 -> Events],
     statuses \in [1..2 -> {"draft", "submitted"}]}

ThresholdChoices ==
    {NoThreshold, TextThreshold, RealThreshold(Rat(82, 1)), RealThreshold(Rat(724, 10))}

InitFinalize ==
    /\ abstract_submissions \in DraftTables
    /\ event_requirements \in [Events -> ThresholdChoices]
    /\ text = <<>>
    /\ overall_risk = Zero /\ event_id = 0 /\ exclude_submission_id = 0
    /\ NoScorerInput /\ NoVectorInput
    /\ call = "none" /\ passes = 0 /\ result = None
    /\ checker = PlagiarismChecker /\ earlier = None /\ workers = <<>>
    /\ batch = None

FinalizeSubmission ==
    /\ passes < MaxFinalize
    /\ \E submission_id \in 1..Len(abstract_submissions), current_user \in Users :
          \E done \in {finalize_submission(abstract_submissions, event_requirements,
                                           submission_id, current_user)} :
              /\ abstract_submissions' = done.table
              /\ result' = done.answer
    /\ call' = "finalize_submission"
    /\ passes' = passes + 1
    /\ UNCHANGED <<scorer_vars, source_documents, overall_risk, event_id,
                   exclude_submission_id, submissions, checker, earlier, workers,
                   event_requirements, batch>>

NextFinalize == FinalizeSubmission

SpecFinalize == InitFinalize /\ [][NextFinalize]_vars

BatchKinds == {
    [title |-> <<"a", " ", "b">>, abstract_text |-> Abstract5],
    [title |-> <<"B">>, abstract_text |-> Conclusion5] }

\* two stored abstracts: of either event, latest version or not, checked or not
BatchTables ==
    {[i \in 1..2 |->
        [id |-> i, event_id |-> events[i], is_latest_version |-> latest[i],
         title |-> kinds[i].title, abstract_text |-> kinds[i].abstract_text,
         plagiarism_score |-> Zero, plagiarism_status |-> statuses[i]]] :
     kinds \in [1..2 -> BatchKinds], events \in [1..2 -> Events],
     latest \in [1..2 -> {0, 1}], statuses \in [1..2 -> {"pending", "clean"}]}

\* the SELECT without its condition on is_latest_version
select_pending_any_version(table, ev) ==
    Bind(SelectSeq(table, LAMBDA row :
             row.event_id = ev /\ row.plagiarism_status = "pending"), LAMBDA rows :
    [i \in 1..Len(rows) |-> [id |-> rows[i].id, abstract_text |-> rows[i].abstract_text]])

\* SELECT id, abstract_text FROM abstract_submissions WHERE event_id = ? AND
\* is_latest_version = 1 AND plagiarism_status = 'pending'
select_pending(table, ev) ==
    Bind(SelectSeq(table, LAMBDA row :
             /\ row.event_id = ev
             /\ row.is_latest_version = 1
             /\ row.plagiarism_status = "pending"), LAMBDA rows :
    [i \in 1..Len(rows) |-> [id |-> rows[i].id, abstract_text |-> rows[i].abstract_text]])

InitBatch ==
    /\ abstract_submissions \in BatchTables
    /\ text = <<>>
    /\ overall_risk = Zero /\ event_id = 0 /\ exclude_submission_id = 0
    /\ NoScorerInput /\ NoVectorInput
    /\ call = "none" /\ passes = 0 /\ result = None
    /\ checker = PlagiarismChecker /\ earlier = None /\ workers = <<>>
    /\ event_requirements = <<>> /\ batch = None

batch_vars ==
    <<text, text2, phrase_length, source_documents, overall_risk, exclude_submission_id,
      submissions, passes, checker, earlier, workers, event_requirements>>

\* the call: the pending rows of the event are fetched
StartBatch ==
    /\ batch = None
    /\ \E ev \in Events :
          /\ event_id' = ev
          /\ batch' = Some([pc |-> "loop", event_id |-> ev,
                            submissions |-> select_pending(abstract_submissions, ev),
                            results |-> <<>>, started |-> abstract_submissions,
                            raised |-> {}, unsaved |-> {}])
    /\ call' = "batch_check_plagiarism"
    /\ UNCHANGED <<abstract_submissions, result, batch_vars>>

\* the SELECT of the batch fails: the exception leaves batch_check_plagiarism
SelectFails ==
    /\ batch = None
    /\ \E ev \in Events :
          /\ event_id' = ev
          /\ batch' = Some([pc |-> "raised", event_id |-> ev, submissions |-> <<>>,
                            results |-> <<>>, started |-> abstract_submissions,
                            raised |-> {}, unsaved |-> {}])
    /\ call' = "batch_check_plagiarism"
    /\ UNCHANGED <<abstract_submissions, result, batch_vars>>

Looping == batch # None /\ batch[1].pc = "loop" /\ batch[1].submissions # <<>>

\* the entry appended to results for the submission at hand
checked(submission) ==
    [submission_id |-> submission.id,
     report |-> generate_report(submission.abstract_text, abstract_submissions,
                                batch[1].event_id, submission.id)]

\* one pass of the loop: the report is computed and stored
CheckSubmission ==
    /\ Looping
    /\ \E entry \in {checked(Head(batch[1].submissions))} :
          /\ abstract_submissions' =
                update_submission_plagiarism_score(
                    abstract_submissions, entry.submission_id, entry.report.overall_score,
                    IF entry.report.is_suspicious THEN "flagged" ELSE "clean")
          /\ batch' = Some([batch[1] EXCEPT !.submissions = Tail(@),
                                           !.results = Append(@, entry)])
    /\ UNCHANGED <<event_id, call, result, batch_vars>>

\* one pass of the loop: the report is computed, the UPDATE fails and
\* update_submission_plagiarism_score returns False, which the loop ignores
UpdateFails ==
    /\ Looping
    /\ \E entry \in {checked(Head(batch[1].submissions))} :
          batch' = Some([batch[1] EXCEPT !.submissions = Tail(@),
                                         !.results = Append(@, entry),
                                         !.unsaved = @ \cup {entry.submission_id}])
    /\ UNCHANGED <<abstract_submissions, event_id, call, result, batch_vars>>

\* one pass of the loop: generate_report raises, the loop prints and continues
CheckRaises ==
    /\ Looping
    /\ batch' = Some([batch[1] EXCEPT !.submissions = Tail(@),
                                     !.raised = @ \cup {Head(batch[1].submissions).id}])
    /\ UNCHANGED <<abstract_submissions, event_id, call, result, batch_vars>>

\* return results
ReturnResults ==
    /\ batch # None /\ batch[1].pc = "loop" /\ batch[1].submissions = <<>>
    /\ batch' = Some([batch[1] EXCEPT !.pc = "returned"])
    /\ result' = batch[1].results
    /\ UNCHANGED <<abstract_submissions, event_id, call, batch_vars>>

NextBatch ==
    \/ StartBatch
    \/ SelectFails
    \/ CheckSubmission
    \/ UpdateFails
    \/ CheckRaises
    \/ ReturnResults

SpecBatch == InitBatch /\ [][NextBatch]_vars

\* the interpreter keeps executing the statements of the function
SpecBatchFair == SpecBatch /\ WF_vars(NextBatch)

\* row k was a pending latest-version submission of the event when the batch started
PendingAtStart(k) ==
    /\ batch[1].started[k].event_id = batch[1].event_id
    /\ batch[1].started[k].is_latest_version = 1
    /\ batch[1].started[k].plagiarism_status = "pending"

\* the results hold a report for row k
Computed(k) ==
    \E j \in 1..Len(batch[1].results) :
        batch[1].results[j].submission_id = batch[1].started[k].id

\* row k as a stored report leaves it
AfterCheck(k) ==
    LET before == batch[1].started[k]
        report == generate_report(before.abstract_text, batch[1].started,
                                  batch[1].event_id, before.id)
    IN  [before EXCEPT !.plagiarism_score = report.overall_score,
                       !.plagiarism_status =
                           IF report.is_suspicious THEN "flagged" ELSE "clean"]

Finished == batch # None /\ batch[1].pc \in {"returned", "raised"}

(***************************************************************************)
(* C30 as stated: batch_check_plagiarism(event) terminates and changes     *)
(* only latest-version submissions of that event that were 'pending' when  *)
(* it started; each one whose report is computed ends with                 *)
(* plagiarism_score = overall_score and plagiarism_status 'flagged'        *)
(* exactly if is_suspicious, else 'clean'; a submission whose check raises *)
(* keeps 'pending' and does not stop the remaining ones; submissions of    *)
(* other events and non-pending submissions are left unchanged.  The part  *)
(* on computed reports, once the batch has returned:                       *)
(***************************************************************************)
C30_EveryComputedReportStored ==
    (batch # None /\ batch[1].pc = "returned") =>
        \A k \in 1..Len(abstract_submissions) :
            Computed(k) => abstract_submissions[k] = AfterCheck(k)

(***************************************************************************)
(* C30, amended: batch_check_plagiarism(event) terminates and changes only *)
(* latest-version submissions of that event that were 'pending' when it    *)
(* started; each one whose report is computed and whose update is stored   *)
(* ends with plagiarism_score = overall_score and plagiarism_status        *)
(* 'flagged' exactly if is_suspicious, else 'clean'; a submission whose    *)
(* check raises, or whose update fails, keeps 'pending' and its other      *)
(* columns, and does not stop the remaining submissions from being         *)
(* processed; every other row is left unchanged.                           *)
(***************************************************************************)
C30_BatchFrame ==
    batch # None =>
        \A k \in 1..Len(abstract_submissions) :
            LET before == batch[1].started[k]
                now == abstract_submissions[k]
                stored == Computed(k) /\ before.id \notin batch[1].unsaved
            IN  /\ ~PendingAtStart(k) => now = before /\ ~Computed(k)
                /\ stored => now = AfterCheck(k)
                /\ ~stored => now = before
                /\ before.id \in batch[1].raised =>
                       PendingAtStart(k) /\ ~Computed(k) /\ now.plagiarism_status = "pending"
                /\ (batch[1].pc = "returned" /\ PendingAtStart(k)) =>
                       Computed(k) \/ before.id \in batch[1].raised

C30_BatchTerminatesWithinFrame == []C30_BatchFrame /\ <>Finished

\* the check of the first pending submission raised, and the second one was
\* still checked and stored as flagged
C30_Witness ==
    /\ batch # None
    /\ batch[1].pc = "returned"
    /\ batch[1].raised = {1}
    /\ abstract_submissions[1].plagiarism_status = "pending"
    /\ Computed(2)
    /\ abstract_submissions[2] = AfterCheck(2)
    /\ abstract_submissions[2].plagiarism_status = "flagged"

====
